---------------------------- MODULE Spec2Model ----------------------------
(***************************************************************************)
(* A model of the tracengine / voxelcraft renderer: typed GPU buffers and  *)
(* textures, the ShaderResourceBuilder, the TAA subsystem and the          *)
(* ray-tracing frame of VoxelCraft::render.                                *)
(*                                                                         *)
(* Device objects are identified by small naturals.  A new object always   *)
(* gets an identifier that no live object has; an object lives as long as  *)
(* its Rust owner or a bind group that references it.                      *)
(***************************************************************************)
EXTENDS Integers, Sequences, FiniteSets, TLC

\* ------------------------------------------------------------------ bounds
MaxCap == 2
MaxLen == 2
MaxOffset == 2
MaxDim == 2
MaxFrames == 2
MaxBlocks == 2

VARIABLES
    gpuBuffers,     \* device buffers: id -> [size (bytes), usage, data (elements)]
    buf,            \* a Buffer<T>: [inner, capacity, elem (size_of::<T>())]
    call,           \* the last Buffer call: its arguments, the state before, its outcome
    builder,        \* a ShaderResourceBuilder: its two entry lists
    builderState,   \* "open", "built" or "panicked"
    adds,           \* the add_buffer / add_texture calls made on the builder, in order
    shaderResource, \* what build() returned
    gpuTextures,    \* device textures: id -> [size, dimension, format, usage, filter, data]
    tex,            \* a Texture: [texture, view, sampler, description]
    texCall,        \* the last Texture call: its arguments and the state before
    renderer,       \* Renderer: size, surface configuration, depth texture
    taa,            \* Taa
    tracer,         \* Tracer: its buffers, camera and ShaderResource
    frame,          \* the last VoxelCraft::render call: what it recorded and did
    model,          \* a VoxelModel: blocks, palette, size
    bundles,        \* what into_chunks returned: chunk-grid key -> [chunk, transform]
    chunk,          \* a Chunk: the blocks stored in it, its palette
    chunkCall       \* the last VoxelModel / Chunk call: its arguments and outcome

bufVars == <<buf, call>>
builderVars == <<builder, builderState, adds, shaderResource>>
texVars == <<tex, texCall>>
frameVars == <<renderer, taa, tracer, frame>>
chunkVars == <<model, bundles, chunk, chunkCall>>
vars == <<gpuBuffers, buf, call, builder, builderState, adds, shaderResource,
          gpuTextures, tex, texCall, renderer, taa, tracer, frame,
          model, bundles, chunk, chunkCall>>

\* ------------------------------------------------------------- the device
\* The smallest identifier no object of the table has.
FreshId(table) ==
    CHOOSE n \in 0..Cardinality(DOMAIN table) :
        /\ n \notin DOMAIN table
        /\ \A m \in 0..Cardinality(DOMAIN table) : m \notin DOMAIN table => n <= m

\* The table without the objects nothing refers to any more (Arc / Drop).
Collect(table, live) == [id \in (DOMAIN table) \cap live |-> table[id]]

\* The contents of a device buffer are kept for the elements written since it was
\* created; every other element still holds the zero it was created with.
NoData == <<>>
ReadElement(bufs, id, i) ==
    IF i \in DOMAIN bufs[id].data THEN bufs[id].data[i] ELSE 0

\* Queue::write_buffer: the write is validated against the buffer's size; a write
\* that overruns it is a validation error and changes nothing.
WriteInBounds(bufs, id, byteOffset, nbytes) == byteOffset + nbytes <= bufs[id].size

QueueWriteBuffer(bufs, id, byteOffset, data, elem) ==
    IF WriteInBounds(bufs, id, byteOffset, Len(data) * elem)
    THEN LET first == byteOffset \div elem
             written == (first + 1)..(first + Len(data))
         IN  [bufs EXCEPT ![id].data =
                [i \in (DOMAIN @) \cup written |->
                    IF i \in written THEN data[i - first] ELSE @[i]]]
    ELSE bufs

\* ------------------------------------------------------------- Buffer<T>
\* Buffer::new_inner: create_buffer of `bytes` bytes, usage | COPY_DST.
BufferNewInner(bufs, bytes, usage, elem) ==
    LET id == FreshId(bufs)
    IN  [id   |-> id,
         bufs |-> bufs @@ (id :> [size  |-> bytes,
                                  usage |-> usage \cup {"COPY_DST"},
                                  data  |-> NoData])]

\* Buffer::new
BufferNew(bufs, capacity, usage, elem) ==
    LET n == BufferNewInner(bufs, capacity * elem, usage, elem)
    IN  [buffer |-> [inner |-> n.id, capacity |-> capacity, elem |-> elem],
         bufs   |-> n.bufs]

\* Buffer::fill_exact
BufferFillExact(b, bufs, offset, data) ==
    IF Len(data) > b.capacity
    THEN [result |-> "BufferOverflow", bufs |-> bufs, writes |-> <<>>]
    ELSE IF data # <<>>
    THEN [result |-> "Ok",
          bufs   |-> QueueWriteBuffer(bufs, b.inner, offset * b.elem, data, b.elem),
          writes |-> << [buffer |-> b.inner, offset |-> offset, len |-> Len(data),
                         inBounds |-> WriteInBounds(bufs, b.inner, offset * b.elem,
                                                    Len(data) * b.elem)] >>]
    ELSE [result |-> "Ok", bufs |-> bufs, writes |-> <<>>]

BufferResizeSameHandle(b, bufs, capacity) ==
    IF capacity = b.capacity
    THEN [buffer |-> b, bufs |-> bufs]
    ELSE LET n == BufferNewInner(bufs, capacity * b.elem, bufs[b.inner].usage, b.elem)
         IN  [buffer |-> [b EXCEPT !.inner = n.id, !.capacity = capacity],
              bufs   |-> n.bufs]

\* Buffer::resize
BufferResize(b, bufs, capacity) ==
    LET n == BufferNewInner(bufs, capacity * b.elem, bufs[b.inner].usage, b.elem)
    IN  [buffer |-> [b EXCEPT !.inner = n.id, !.capacity = capacity],
         bufs   |-> n.bufs]

\* Buffer::fill
BufferFill(b, bufs, offset, data) ==
    LET bytes_to_write == Len(data) * b.elem
        grown == IF bytes_to_write > b.capacity * b.elem
                 THEN BufferResize(b, bufs, Len(data))
                 ELSE [buffer |-> b, bufs |-> bufs]
        w == BufferFillExact(grown.buffer, grown.bufs, offset, data)
    IN  [buffer |-> grown.buffer, bufs |-> w.bufs, result |-> w.result,
         writes |-> w.writes]

\* ---------------------------------------------------------------- Texture
\* Option<T>: None is <<>>, Some(x) is <<x>>.
None == <<>>
Some(x) == <<x>>
UnwrapOr(option, default) == IF option = None THEN default ELSE option[1]

\* What a texture holds: nothing yet (a new image), or the output of frame n.
Blank == [kind |-> "blank", frame |-> 0]
FrameOutput(n) == [kind |-> "frame", frame |-> n]

\* Texture::new: the image, its default view and its sampler, all created from
\* the descriptor.  The three objects are created together and carry the same
\* identifier, each in its own kind's namespace.
TextureNew(texs, description) ==
    LET id == FreshId(texs)
    IN  [texture |-> [texture |-> id, view |-> id, sampler |-> id,
                      description |-> description],
         texs |-> texs @@ (id :> [size |-> [width  |-> description.width,
                                            height |-> description.height,
                                            depth_or_array_layers |->
                                               UnwrapOr(description.depth, 1)],
                                  dimension |-> description.dimension,
                                  format    |-> description.format,
                                  usage     |-> description.usage,
                                  filter    |-> description.filter,
                                  label     |-> description.label,
                                  data      |-> Blank])]

TextureResizeSwapped(t, texs, size) ==
    TextureNew(texs, [t.description EXCEPT !.width = size.height, !.height = size.width])

\* Texture::resize
TextureResize(t, texs, size) ==
    TextureNew(texs, [t.description EXCEPT !.width = size.width, !.height = size.height])

\* ------------------------------------------------- ShaderResourceBuilder
\* The flags of TextureResourceUsage in the order bitflags' iter() yields them.
TextureResourceUsageFlags == <<"TEXTURE", "SAMPLER", "STORAGE">>

UsageIter(usage) == SelectSeq(TextureResourceUsageFlags, LAMBDA f : f \in usage)

ViewDimension(dimension) ==
    CASE dimension = "D1" -> "D1"
      [] dimension = "D2" -> "D2"
      [] dimension = "D3" -> "D3"

\* ShaderResource::builder
ShaderResourceBuilderNew ==
    [bind_group_layout_entries |-> <<>>, bind_group_entries |-> <<>>]

\* ShaderResourceBuilder::add_buffer
AddBuffer(b, buffer, descriptor) ==
    [bind_group_layout_entries |->
        Append(b.bind_group_layout_entries,
               [binding    |-> Len(b.bind_group_layout_entries),
                visibility |-> descriptor.visibility,
                ty         |-> [kind |-> "Buffer", ty |-> descriptor.buffer_type]]),
     bind_group_entries |->
        Append(b.bind_group_entries,
               [binding  |-> Len(b.bind_group_entries),
                resource |-> [kind |-> "Buffer", id |-> buffer.inner]])]

\* add_texture panics on TEXTURE usage without a sample type.
AddTexturePanics(descriptor) ==
    "TEXTURE" \in descriptor.usage /\ descriptor.sample_type = None

BitPosition(flag) ==
    CHOOSE k \in 1..Len(TextureResourceUsageFlags) : TextureResourceUsageFlags[k] = flag

\* The index enumerate() pairs with the k-th flag that iter() yields.
EnumerateIndexByBit(flags, k) == BitPosition(flags[k]) - 1

EnumerateIndex(flags, k) == k - 1

\* add_texture, the layout entry of one usage flag (i is the enumerate index).
TextureLayoutEntry(b, texture, descriptor, i, flag) ==
    CASE flag = "TEXTURE" ->
            [binding    |-> Len(b.bind_group_layout_entries) + i,
             visibility |-> {"FRAGMENT", "COMPUTE"},
             ty         |-> [kind |-> "Texture",
                             sample_type |-> descriptor.sample_type[1],
                             view_dimension |-> ViewDimension(texture.description.dimension)]]
      [] flag = "SAMPLER" ->
            [binding    |-> Len(b.bind_group_layout_entries) + i,
             visibility |-> {"FRAGMENT"},
             ty         |-> [kind |-> "Sampler"]]
      [] flag = "STORAGE" ->
            [binding    |-> Len(b.bind_group_layout_entries) + i,
             visibility |-> {"COMPUTE", "FRAGMENT"},
             ty         |-> [kind |-> "StorageTexture",
                             format |-> texture.description.format,
                             view_dimension |-> ViewDimension(texture.description.dimension)]]

TextureBindEntryViewOnly(b, texture, i, flag) ==
    [binding  |-> Len(b.bind_group_entries) + i,
     resource |-> [kind |-> "TextureView", id |-> texture.view]]

\* add_texture, the bind group entry of one usage flag.
TextureBindEntry(b, texture, i, flag) ==
    CASE flag \in {"STORAGE", "TEXTURE"} ->
            [binding  |-> Len(b.bind_group_entries) + i,
             resource |-> [kind |-> "TextureView", id |-> texture.view]]
      [] flag = "SAMPLER" ->
            [binding  |-> Len(b.bind_group_entries) + i,
             resource |-> [kind |-> "Sampler", id |-> texture.sampler]]

\* ShaderResourceBuilder::add_texture (when it does not panic)
AddTexture(b, texture, descriptor) ==
    LET flags == UsageIter(descriptor.usage)
        layout == [k \in 1..Len(flags) |->
                     TextureLayoutEntry(b, texture, descriptor,
                                        EnumerateIndex(flags, k), flags[k])]
        entries == [k \in 1..Len(flags) |->
                     TextureBindEntry(b, texture, EnumerateIndex(flags, k), flags[k])]
    IN  [bind_group_layout_entries |-> b.bind_group_layout_entries \o layout,
         bind_group_entries        |-> b.bind_group_entries \o entries]

\* ShaderResourceBuilder::build: a bind group layout and a bind group of the
\* accumulated entries; `live` are the bind groups alive at the call.
Build(b, live) ==
    [bind_group_layout |-> b.bind_group_layout_entries,
     bind_group        |-> b.bind_group_entries,
     id                |-> CHOOSE n \in 0..Cardinality(live) :
                              /\ n \notin live
                              /\ \A m \in 0..Cardinality(live) : m \notin live => n <= m]

NoShaderResource == [bind_group_layout |-> <<>>, bind_group |-> <<>>, id |-> 0]

\* -------------------------------------------------------------------- Taa
\* TaaConfig::new; the jitter is the sample drawn from [-1, 1].
TaaConfigNew(size, jitter) ==
    [canvas_width |-> size.width, canvas_height |-> size.height, jitter |-> jitter]

HistoryResourceDescriptor ==
    [usage |-> {"TEXTURE", "SAMPLER"}, sample_type |-> Some("Float")]
VelocityResourceDescriptor ==
    [visibility |-> {"COMPUTE", "FRAGMENT"}, buffer_type |-> "Storage"]
ConfigResourceDescriptor ==
    [visibility |-> {"VERTEX", "FRAGMENT", "COMPUTE"}, buffer_type |-> "Uniform"]

\* The builder chain of Taa::new and of Taa::update; `old` is the resource the
\* new one replaces.
TaaBuildResource(history_texture, velocity_buffer, config_buffer, old, live) ==
    Build(AddBuffer(
            AddBuffer(
              AddTexture(ShaderResourceBuilderNew, history_texture,
                         HistoryResourceDescriptor),
              velocity_buffer, VelocityResourceDescriptor),
            config_buffer, ConfigResourceDescriptor),
          live)

RenderTextureDescriptor(size) ==
    [width |-> size.width, height |-> size.height, filter |-> "Linear",
     dimension |-> "D2", usage |-> {"RENDER_ATTACHMENT", "COPY_SRC"},
     format |-> "Bgra8UnormSrgb", depth |-> None, label |-> "TAA Color"]

HistoryTextureDescriptor(size) ==
    [width |-> size.width, height |-> size.height, filter |-> "Linear",
     dimension |-> "D2", usage |-> {"TEXTURE_BINDING", "COPY_DST"},
     format |-> "Bgra8UnormSrgb", depth |-> None, label |-> "TAA History"]

\* Taa::new
TaaNew(size, texs, bufs, live) ==
    LET rt == TextureNew(texs, RenderTextureDescriptor(size))
        ht == TextureNew(rt.texs, HistoryTextureDescriptor(size))
        vb == BufferNew(bufs, size.width * size.height, {"STORAGE"}, 16)
        cb == BufferNew(vb.bufs, 1, {"UNIFORM", "COPY_DST"}, 12)
    IN  [taa |-> [render_texture  |-> rt.texture,
                  history_texture |-> ht.texture,
                  velocity_buffer |-> vb.buffer,
                  config_buffer   |-> cb.buffer,
                  shader_resource |-> TaaBuildResource(ht.texture, vb.buffer, cb.buffer,
                                                       NoShaderResource, live),
                  current_jitter  |-> 0],
         texs |-> ht.texs,
         bufs |-> cb.bufs]

TaaRebindNeverOnTextures(renderResized, historyResized, velocityResized) ==
    velocityResized

\* Taa::update, the rebind_resources flag once the three checks are made.
TaaRebindFlag(renderResized, historyResized, velocityResized) ==
    renderResized \/ historyResized \/ velocityResized

TaaTextureStaleWidthOnly(t, size) == t.description.width # size.width

\* Taa::update, the test that guards the resize of a texture.
TaaTextureStale(t, size) ==
    t.description.width # size.width \/ t.description.height # size.height

\* Taa::update
TaaUpdate(t, size, jitter, texs, bufs, live) ==
    LET taa_config == TaaConfigNew(size, jitter)
        filled == BufferFillExact(t.config_buffer, bufs, 0, <<taa_config>>)
        renderStale == TaaTextureStale(t.render_texture, size)
        rt == IF renderStale
              THEN TextureResize(t.render_texture, texs, size)
              ELSE [texture |-> t.render_texture, texs |-> texs]
        historyStale == TaaTextureStale(t.history_texture, size)
        ht == IF historyStale
              THEN TextureResize(t.history_texture, rt.texs, size)
              ELSE [texture |-> t.history_texture, texs |-> rt.texs]
        viewport_size == size.width * size.height
        velocityStale == t.velocity_buffer.capacity # viewport_size
        vb == IF velocityStale
              THEN BufferResize(t.velocity_buffer, filled.bufs, viewport_size)
              ELSE [buffer |-> t.velocity_buffer, bufs |-> filled.bufs]
        rebind_resources == TaaRebindFlag(renderStale, historyStale, velocityStale)
    IN  [taa |-> [render_texture  |-> rt.texture,
                  history_texture |-> ht.texture,
                  velocity_buffer |-> vb.buffer,
                  config_buffer   |-> t.config_buffer,
                  shader_resource |->
                      IF rebind_resources
                      THEN TaaBuildResource(ht.texture, vb.buffer, t.config_buffer,
                                            t.shader_resource, live)
                      ELSE t.shader_resource,
                  current_jitter  |-> jitter],
         texs |-> ht.texs,
         bufs |-> vb.bufs,
         panicked |-> filled.result # "Ok"]

\* --------------------------------------------------------------- Renderer
DepthTextureDescriptor(config) ==
    [width |-> config.width, height |-> config.height, filter |-> "Linear",
     dimension |-> "D2", format |-> "Depth32Float",
     usage |-> {"RENDER_ATTACHMENT", "TEXTURE_BINDING"}, depth |-> None,
     label |-> "Depth data"]

\* Renderer::new
RendererNew(size, texs) ==
    LET dt == TextureNew(texs, DepthTextureDescriptor(size))
    IN  [renderer |-> [size |-> size,
                       config |-> [width |-> size.width, height |-> size.height],
                       surface |-> [width |-> size.width, height |-> size.height],
                       depth_texture |-> dt.texture],
         texs |-> dt.texs]

RendererResizeWithUnguarded(r, new_size, texs) ==
    LET config == [width |-> new_size.width, height |-> new_size.height]
        depth_descr == [r.depth_texture.description EXCEPT
                           !.width = config.width, !.height = config.height]
        dt == TextureNew(texs, depth_descr)
    IN  [renderer |-> [size |-> new_size, config |-> config, surface |-> config,
                       depth_texture |-> dt.texture],
         texs |-> dt.texs]

\* Renderer::resize_with
RendererResizeWith(r, new_size, texs) ==
    IF new_size.width = 0 \/ new_size.height = 0
    THEN [renderer |-> r, texs |-> texs]
    ELSE LET config == [width |-> new_size.width, height |-> new_size.height]
             depth_descr == [r.depth_texture.description EXCEPT
                                !.width = config.width, !.height = config.height]
             dt == TextureNew(texs, depth_descr)
         IN  [renderer |-> [size |-> new_size, config |-> config, surface |-> config,
                            depth_texture |-> dt.texture],
              texs |-> dt.texs]

\* ----------------------------------------------------------------- Tracer
\* RtCamera::new; the jitter enters first_pixel, divided by the image height.
RtCameraNew(image_width, image_height, scan_depth, jitter) ==
    [image_width |-> image_width, image_height |-> image_height,
     scan_depth |-> scan_depth,
     first_pixel |-> [jitter |-> jitter, over |-> image_height]]

\* RtCamera::uniform_data
UniformData(camera) == camera

CHUNKS_RENDER_DISTANCE == 3
PALETTE_SIZE == 256
CHUNK_SIZE == 32

\* chunks_count()
ChunksCount ==
    LET distance == IF CHUNKS_RENDER_DISTANCE < 1 THEN 1 ELSE CHUNKS_RENDER_DISTANCE
    IN  (2 * distance + 1) * (2 * distance + 1)

ChunksTextureDescriptor ==
    [width |-> CHUNK_SIZE, height |-> CHUNK_SIZE, depth |-> Some(CHUNK_SIZE * ChunksCount),
     filter |-> "Nearest", dimension |-> "D3",
     usage |-> {"TEXTURE_BINDING", "COPY_DST"}, format |-> "Rgba8Uint",
     label |-> "Chunks"]

\* The builder chain of Tracer::new and Tracer::rebind_resources.
TracerBuildResource(t, live) ==
    Build(AddTexture(
            AddBuffer(
              AddBuffer(
                AddBuffer(
                  AddBuffer(
                    AddBuffer(ShaderResourceBuilderNew, t.camera_buffer,
                              [visibility |-> {"COMPUTE"}, buffer_type |-> "Uniform"]),
                    t.color_buffer,
                    [visibility |-> {"COMPUTE", "FRAGMENT"}, buffer_type |-> "Storage"]),
                  t.normal_buffer,
                  [visibility |-> {"COMPUTE", "FRAGMENT"}, buffer_type |-> "Storage"]),
                t.depth_buffer,
                [visibility |-> {"COMPUTE", "FRAGMENT"}, buffer_type |-> "Storage"]),
              t.palettes_buffer,
              [visibility |-> {"COMPUTE"}, buffer_type |-> "StorageReadOnly"]),
            t.chunks_3d_texture,
            [usage |-> {"TEXTURE", "SAMPLER"}, sample_type |-> Some("Uint")]),
          live)

\* Tracer::new (after Taa::new); background_buffer and depth2_buffer are the two
\* per-pixel buffers VoxelCraft::render also keeps at the viewport size.
TracerNew(size, taaNew, live) ==
    LET viewport_size == size.width * size.height
        color  == BufferNew(taaNew.bufs, viewport_size, {"STORAGE"}, 16)
        depth  == BufferNew(color.bufs, viewport_size, {"STORAGE"}, 4)
        normal == BufferNew(depth.bufs, viewport_size, {"STORAGE"}, 16)
        camera == RtCameraNew(size.width, size.height, 2, taaNew.taa.current_jitter)
        cam    == BufferNew(normal.bufs, 1, {"UNIFORM", "COPY_DST"}, 80)
        camW   == BufferFillExact(cam.buffer, cam.bufs, 0, <<UniformData(camera)>>)
        chunks == TextureNew(taaNew.texs, ChunksTextureDescriptor)
        pal    == BufferNew(camW.bufs, PALETTE_SIZE * ChunksCount, {"STORAGE"}, 16)
        backg  == BufferNew(pal.bufs, viewport_size, {"STORAGE"}, 16)
        depth2 == BufferNew(backg.bufs, viewport_size, {"STORAGE"}, 4)
        t == [color_buffer |-> color.buffer, background_buffer |-> backg.buffer,
              normal_buffer |-> normal.buffer, depth_buffer |-> depth.buffer,
              depth2_buffer |-> depth2.buffer, camera_buffer |-> cam.buffer,
              palettes_buffer |-> pal.buffer, chunks_3d_texture |-> chunks.texture,
              camera |-> camera, rt_pipeline |-> "Compute", taa_pipeline |-> "Render"]
    IN  [tracer |-> [color_buffer |-> t.color_buffer,
                     background_buffer |-> t.background_buffer,
                     normal_buffer |-> t.normal_buffer,
                     depth_buffer |-> t.depth_buffer,
                     depth2_buffer |-> t.depth2_buffer,
                     camera_buffer |-> t.camera_buffer,
                     palettes_buffer |-> t.palettes_buffer,
                     chunks_3d_texture |-> t.chunks_3d_texture,
                     camera |-> t.camera,
                     rt_pipeline |-> t.rt_pipeline,
                     taa_pipeline |-> t.taa_pipeline,
                     shader_resource |-> TracerBuildResource(t, live)],
         texs |-> chunks.texs,
         bufs |-> depth2.bufs]

\* ------------------------------------------------------------ DrawContext
\* Renderer::draw_ctx: a new command encoder, nothing recorded.
DrawCtx == <<>>

\* DrawContext::compute_pass and ComputePass::compute
ComputePassCompute(encoder, pipeline, shader_bindings, size) ==
    Append(encoder, [op |-> "compute", pipeline |-> pipeline,
                     bindings |-> shader_bindings,
                     workgroups |-> <<size.width, size.height, 1>>])

\* DrawContext::render_pass and RenderPass::draw (no drawable: 6 vertices)
RenderPassDraw(encoder, surface, depth_texture, pipeline, shader_bindings) ==
    Append(encoder, [op |-> "render_pass", target |-> surface,
                     depth |-> depth_texture.view, pipeline |-> pipeline,
                     bindings |-> shader_bindings, vertices |-> 6])

CopyTextureReversed(encoder, from, to) ==
    Append(encoder, [op |-> "copy", from |-> to.texture, to |-> from.texture,
                     extent |-> [width |-> from.description.width,
                                 height |-> from.description.height,
                                 depth_or_array_layers |-> 1]])

\* DrawContext::copy_texture
CopyTexture(encoder, from, to) ==
    Append(encoder, [op |-> "copy", from |-> from.texture, to |-> to.texture,
                     extent |-> [width |-> to.description.width,
                                 height |-> to.description.height,
                                 depth_or_array_layers |-> 1]])

\* The commands one pass records; a pipeline is [kind, id] with kind the variant
\* of the Pipeline enum, and a drawable is given as its vertex buffer.
\* ComputePass::compute
PassCompute(instance_data, pipeline, shader_bindings, size) ==
    IF pipeline.kind # "Compute"
    THEN [panicked |-> TRUE, commands |-> <<>>]
    ELSE [panicked |-> FALSE,
          commands |->
             <<[cmd |-> "set_pipeline", arg |-> pipeline.id]>>
             \o [i \in 1..Len(shader_bindings) |->
                   [cmd |-> "set_bind_group", arg |-> <<i - 1, shader_bindings[i]>>]]
             \o (IF instance_data # None
                 THEN <<[cmd |-> "set_push_constants", arg |-> instance_data[1]]>>
                 ELSE <<>>)
             \o <<[cmd |-> "dispatch_workgroups",
                   arg |-> <<size.width, size.height, 1>>]>>]

PassDrawUnchecked(drawable, instance_data, pipeline, shader_bindings) ==
    [panicked |-> FALSE,
     commands |-> <<[cmd |-> "set_pipeline", arg |-> pipeline.id],
                    [cmd |-> "draw", arg |-> 6]>>]

\* RenderPass::draw
PassDraw(drawable, instance_data, pipeline, shader_bindings) ==
    IF pipeline.kind # "Render"
    THEN [panicked |-> TRUE, commands |-> <<>>]
    ELSE [panicked |-> FALSE,
          commands |->
             <<[cmd |-> "set_pipeline", arg |-> pipeline.id]>>
             \o [i \in 1..Len(shader_bindings) |->
                   [cmd |-> "set_bind_group", arg |-> <<i - 1, shader_bindings[i]>>]]
             \o (IF instance_data # None
                 THEN <<[cmd |-> "set_push_constants", arg |-> instance_data[1]]>>
                 ELSE <<>>)
             \o (IF drawable # None
                 THEN <<[cmd |-> "set_vertex_buffer", arg |-> drawable[1].inner],
                        [cmd |-> "draw", arg |-> drawable[1].capacity]>>
                 ELSE <<[cmd |-> "draw", arg |-> 6]>>)]

TextureSurface(t) == [kind |-> "texture", id |-> t.texture]
CanvasSurface == [kind |-> "canvas", id |-> 0]

\* impl RenderSurface for Texture, fn view: panics without RENDER_ATTACHMENT.
RenderSurfaceViewPanics(t) == "RENDER_ATTACHMENT" \notin t.description.usage

\* Texture::view, the getter derive(Getters) generates for the field `view`; as
\* an inherent method it is the one a call t.view() on a &Texture resolves to.
TextureViewGetter(t) == t.view

\* DrawContext::render_pass.  `canvas` is a RenderSurface, [kind |-> "canvas"]
\* or [kind |-> "texture", texture |-> t]; `depth_texture` is an Option<&Texture>.
\* canvas.view() is the trait method, t.view() of the depth texture the getter.
\* The pass is begun unless building its descriptor panicked; the device then
\* validates the attachments it was given.
DrawContextRenderPass(canvas, depth_texture) ==
    LET colourPanics == canvas.kind = "texture" /\ RenderSurfaceViewPanics(canvas.texture)
        depthView == IF depth_texture = None THEN None
                     ELSE Some(TextureViewGetter(depth_texture[1]))
        attachmentsValid ==
            /\ canvas.kind = "texture" =>
                  "RENDER_ATTACHMENT" \in canvas.texture.description.usage
            /\ depth_texture # None =>
                  "RENDER_ATTACHMENT" \in depth_texture[1].description.usage
    IN  [panicked |-> colourPanics,
         begun |-> ~colourPanics,
         depth |-> IF colourPanics THEN None ELSE depthView,
         validation |-> IF colourPanics THEN "none"
                        ELSE IF attachmentsValid THEN "ok" ELSE "error"]

\* ------------------------------------------------ the queue runs an encoder
\* What a composite draw samples as history: the texture view bound in the first
\* bind group (the TAA ShaderResource).
HistoryRead(bindings, texs) ==
    LET e == bindings[1].bind_group
        k == CHOOSE i \in 1..Len(e) :
                /\ e[i].resource.kind = "TextureView"
                /\ \A j \in 1..Len(e) : e[j].resource.kind = "TextureView" => i <= j
    IN  texs[e[k].resource.id].data

CopyFits(texs, cmd) ==
    /\ cmd.extent.width <= texs[cmd.from].size.width
    /\ cmd.extent.height <= texs[cmd.from].size.height
    /\ cmd.extent.width <= texs[cmd.to].size.width
    /\ cmd.extent.height <= texs[cmd.to].size.height

\* One command, run on the device state st = [texs, canvas, reads, copied].
ExecCommand(st, cmd, n) ==
    CASE cmd.op = "compute" -> st
      [] cmd.op = "render_pass" ->
            LET seen == HistoryRead(cmd.bindings, st.texs)
                out == FrameOutput(n)
            IN  IF cmd.target.kind = "canvas"
                THEN [st EXCEPT !.canvas = <<out>>, !.reads = Append(@, seen)]
                ELSE [st EXCEPT !.texs[cmd.target.id].data = out,
                                !.reads = Append(@, seen)]
      [] cmd.op = "copy" ->
            IF CopyFits(st.texs, cmd)
            THEN [st EXCEPT !.texs[cmd.to].data = st.texs[cmd.from].data,
                            !.copied = <<st.texs[cmd.from].data>>]
            ELSE st

\* Queue::submit: the commands of the encoder run in the order recorded.
RECURSIVE QueueSubmit(_, _, _)
QueueSubmit(st, encoder, n) ==
    IF encoder = <<>> THEN st
    ELSE QueueSubmit(ExecCommand(st, Head(encoder), n), Tail(encoder), n)

\* ------------------------------------------------------- Block and Chunk
\* Block::new
BlockNew(active, color_id) == [active |-> active, color_id |-> color_id]

\* Block::default
BlockDefault == BlockNew(FALSE, 0)

\* A Chunk holds CHUNK_SIZE^3 blocks; `blocks` keeps the ones set_block stored,
\* keyed <<x, y, z>>, every other block of the grid is Block::default().
\* Chunk::new
ChunkNew(palette) == [blocks |-> <<>>, palette |-> palette, vertex_buffer |-> None]

InGrid(x, y, z) ==
    /\ x \in 0..(CHUNK_SIZE - 1)
    /\ y \in 0..(CHUNK_SIZE - 1)
    /\ z \in 0..(CHUNK_SIZE - 1)

\* Chunk::get_block
GetBlock(c, x, y, z) ==
    IF InGrid(x, y, z)
    THEN Some(IF <<x, y, z>> \in DOMAIN c.blocks THEN c.blocks[<<x, y, z>>]
              ELSE BlockDefault)
    ELSE None

CheckBlockInGrid(c, x, y, z) == GetBlock(c, x, y, z) # None

\* Chunk::check_block
CheckBlock(c, x, y, z) ==
    LET b == GetBlock(c, x, y, z) IN b # None /\ b[1].active

SetBlockTransposed(c, block, x, y, z) ==
    IF x >= CHUNK_SIZE \/ y >= CHUNK_SIZE \/ z >= CHUNK_SIZE
    THEN [result |-> "InvalidBlockCoords", chunk |-> c]
    ELSE [result |-> "Ok",
          chunk |-> [c EXCEPT !.blocks =
                        [k \in (DOMAIN @) \cup {<<z, y, x>>} |->
                            IF k = <<z, y, x>> THEN block ELSE @[k]]]]

\* Chunk::set_block
SetBlock(c, block, x, y, z) ==
    IF x >= CHUNK_SIZE \/ y >= CHUNK_SIZE \/ z >= CHUNK_SIZE
    THEN [result |-> "InvalidBlockCoords", chunk |-> c]
    ELSE [result |-> "Ok",
          chunk |-> [c EXCEPT !.blocks =
                        [k \in (DOMAIN @) \cup {<<x, y, z>>} |->
                            IF k = <<x, y, z>> THEN block ELSE @[k]]]]

\* ------------------------------------------------------------------- Mesh
Vertex(px, py, pz, normal, color) ==
    [position |-> <<px, py, pz>>, normal |-> normal, color |-> color]

\* Mesh::add_top_face
AddTopFace(vertex_data, x, y, z, color) ==
    LET normal == <<0, 1, 0>>
    IN  vertex_data \o
        << Vertex(x, y + 1, z, normal, color), Vertex(x, y + 1, z + 1, normal, color),
           Vertex(x + 1, y + 1, z, normal, color), Vertex(x + 1, y + 1, z, normal, color),
           Vertex(x, y + 1, z + 1, normal, color),
           Vertex(x + 1, y + 1, z + 1, normal, color) >>

\* Mesh::add_bottom_face
AddBottomFace(vertex_data, x, y, z, color) ==
    LET normal == <<0, -1, 0>>
    IN  vertex_data \o
        << Vertex(x, y, z, normal, color), Vertex(x + 1, y, z, normal, color),
           Vertex(x, y, z + 1, normal, color), Vertex(x + 1, y, z, normal, color),
           Vertex(x + 1, y, z + 1, normal, color), Vertex(x, y, z + 1, normal, color) >>

\* Mesh::add_front_face
AddFrontFace(vertex_data, x, y, z, color) ==
    LET normal == <<0, 0, 1>>
    IN  vertex_data \o
        << Vertex(x, y, z, normal, color), Vertex(x, y + 1, z, normal, color),
           Vertex(x + 1, y, z, normal, color), Vertex(x + 1, y, z, normal, color),
           Vertex(x, y + 1, z, normal, color), Vertex(x + 1, y + 1, z, normal, color) >>

\* Mesh::add_back_face
AddBackFace(vertex_data, x, y, z, color) ==
    LET normal == <<0, 0, -1>>
    IN  vertex_data \o
        << Vertex(x, y, z + 1, normal, color), Vertex(x + 1, y, z + 1, normal, color),
           Vertex(x, y + 1, z + 1, normal, color), Vertex(x + 1, y, z + 1, normal, color),
           Vertex(x + 1, y + 1, z + 1, normal, color),
           Vertex(x, y + 1, z + 1, normal, color) >>

\* Mesh::add_left_face
AddLeftFace(vertex_data, x, y, z, color) ==
    LET normal == <<-1, 0, 0>>
    IN  vertex_data \o
        << Vertex(x, y, z, normal, color), Vertex(x, y, z + 1, normal, color),
           Vertex(x, y + 1, z, normal, color), Vertex(x, y + 1, z, normal, color),
           Vertex(x, y, z + 1, normal, color), Vertex(x, y + 1, z + 1, normal, color) >>

\* Mesh::add_right_face
AddRightFace(vertex_data, x, y, z, color) ==
    LET normal == <<1, 0, 0>>
    IN  vertex_data \o
        << Vertex(x + 1, y, z, normal, color), Vertex(x + 1, y + 1, z, normal, color),
           Vertex(x + 1, y, z + 1, normal, color), Vertex(x + 1, y, z + 1, normal, color),
           Vertex(x + 1, y + 1, z, normal, color),
           Vertex(x + 1, y + 1, z + 1, normal, color) >>

\* The position of a cell in the loop order of generate_mesh: x outermost, then
\* y, then z.
LoopRank(k) == (k[1] * CHUNK_SIZE + k[2]) * CHUNK_SIZE + k[3]

InLoopOrder(cells) ==
    [i \in 1..Cardinality(cells) |->
        CHOOSE k \in cells :
            Cardinality({q \in cells : LoopRank(q) < LoopRank(k)}) = i - 1]

MeshBlockFacesUnculled(c, vertex_data, x, y, z, color) ==
    AddTopFace(AddBottomFace(AddRightFace(AddLeftFace(AddBackFace(
        AddFrontFace(vertex_data, x, y, z, color), x, y, z, color), x, y, z, color),
        x, y, z, color), x, y, z, color), x, y, z, color)

\* generate_mesh, the body of the loop for one active block with a valid colour.
MeshBlockFaces(c, vertex_data, x, y, z, color) ==
    LET front  == IF z = 0 \/ ~CheckBlock(c, x, y, z - 1)
                  THEN AddFrontFace(vertex_data, x, y, z, color) ELSE vertex_data
        back   == IF ~CheckBlock(c, x, y, z + 1)
                  THEN AddBackFace(front, x, y, z, color) ELSE front
        left   == IF x = 0 \/ ~CheckBlock(c, x - 1, y, z)
                  THEN AddLeftFace(back, x, y, z, color) ELSE back
        right  == IF ~CheckBlock(c, x + 1, y, z)
                  THEN AddRightFace(left, x, y, z, color) ELSE left
        bottom == IF y = 0 \/ ~CheckBlock(c, x, y - 1, z)
                  THEN AddBottomFace(right, x, y, z, color) ELSE right
    IN  IF ~CheckBlock(c, x, y + 1, z)
        THEN AddTopFace(bottom, x, y, z, color) ELSE bottom

\* generate_mesh, the loop over the cells still to visit; a block that is not
\* active is skipped, an active block whose colour is no index of the palette
\* panics.
RECURSIVE MeshLoop(_, _, _)
MeshLoop(c, cells, vertex_data) ==
    IF cells = <<>> THEN [panicked |-> FALSE, vertex_data |-> vertex_data]
    ELSE LET k == Head(cells)
             block == GetBlock(c, k[1], k[2], k[3])[1]
         IN  IF ~block.active THEN MeshLoop(c, Tail(cells), vertex_data)
             ELSE IF block.color_id >= Len(c.palette)
             THEN [panicked |-> TRUE, vertex_data |-> <<>>]
             ELSE MeshLoop(c, Tail(cells),
                           MeshBlockFaces(c, vertex_data, k[1], k[2], k[3],
                                          c.palette[block.color_id + 1]))

\* Chunk::generate_mesh.  The loop visits all CHUNK_SIZE^3 cells and skips the
\* blocks that are not active, so the active cells in loop order are the ones
\* visited here.
GenerateMesh(c) ==
    MeshLoop(c, InLoopOrder({k \in DOMAIN c.blocks : c.blocks[k].active}), <<>>)

\* ------------------------------------------------ Chunk::write_to_texture
\* Chunk::data_to_u8_slice: four bytes (active, colour, 0, 0) per cell, x
\* fastest, then y, then z.  `len` is the length of the Vec; `texels` keeps the
\* four bytes of the stored cells, the bytes of the other cells are
\* (0, Block::default().color(), 0, 0) = (0, 0, 0, 0).
DataToU8Slice(c) ==
    [len |-> CHUNK_SIZE * CHUNK_SIZE * CHUNK_SIZE * 4,
     texels |-> [k \in DOMAIN c.blocks |->
                   <<IF c.blocks[k].active THEN 1 ELSE 0, c.blocks[k].color_id, 0, 0>>]]

PackedIndexXMajor(k) == (k[1] * CHUNK_SIZE + k[2]) * CHUNK_SIZE + k[3]

\* The index, in texels of four bytes, of cell k in the packed bytes.
PackedIndex(k) == (k[3] * CHUNK_SIZE + k[2]) * CHUNK_SIZE + k[1]

SourceOffsetZero(chunk_index) == 0

\* write_to_texture, ImageDataLayout::offset.
SourceOffset(chunk_index) == chunk_index * CHUNK_SIZE * CHUNK_SIZE * CHUNK_SIZE * 4

\* Queue::write_texture, the bytes the copy needs from the source.
RequiredBytes(bytes_per_row, rows_per_image, extent) ==
    IF extent.width = 0 \/ extent.height = 0 \/ extent.depth_or_array_layers = 0
    THEN 0
    ELSE bytes_per_row * rows_per_image * (extent.depth_or_array_layers - 1)
         + bytes_per_row * (extent.height - 1) + extent.width * 4

\* Queue::write_texture, its validation: the destination takes copies, the
\* region lies inside it, the rows are wide enough and the source bytes exist.
WriteTextureValid(texs, id, origin, source_len, layout, extent) ==
    /\ "COPY_DST" \in texs[id].usage
    /\ origin.x + extent.width <= texs[id].size.width
    /\ origin.y + extent.height <= texs[id].size.height
    /\ origin.z + extent.depth_or_array_layers <= texs[id].size.depth_or_array_layers
    /\ layout.bytes_per_row >= extent.width * 4
    /\ layout.rows_per_image >= extent.height
    /\ layout.offset + RequiredBytes(layout.bytes_per_row, layout.rows_per_image, extent)
          <= source_len

\* Queue::write_texture, where texel number `index` of the source lands in the
\* destination (as an offset from the origin), None when it is not copied.
CopiedTo(index, layout, extent) ==
    LET row == layout.bytes_per_row \div 4
        r == index - layout.offset \div 4
        dx == r % row
        dy == (r \div row) % layout.rows_per_image
        dz == r \div (row * layout.rows_per_image)
    IN  IF r >= 0 /\ dx < extent.width /\ dy < extent.height
           /\ dz < extent.depth_or_array_layers
        THEN Some(<<dx, dy, dz>>)
        ELSE None

\* Queue::write_texture of packed chunk bytes.  The image then holds, in the
\* layers written, the texels of the source; `texels` keeps the ones that come
\* from stored cells, every other texel of a written layer is (0, 0, 0, 0).
QueueWriteTexture(texs, id, origin, packed, layout, extent) ==
    IF ~WriteTextureValid(texs, id, origin, packed.len, layout, extent)
    THEN texs
    ELSE LET layers == origin.z..(origin.z + extent.depth_or_array_layers - 1)
             old == IF texs[id].data.kind = "voxels" THEN texs[id].data
                    ELSE [kind |-> "voxels", frame |-> 0, layers |-> {}, texels |-> <<>>]
             kept == {d \in DOMAIN old.texels : d[3] \notin layers}
             copied == {k \in DOMAIN packed.texels :
                           CopiedTo(PackedIndex(k), layout, extent) # None}
             dest(k) == LET d == CopiedTo(PackedIndex(k), layout, extent)[1]
                        IN  <<origin.x + d[1], origin.y + d[2], origin.z + d[3]>>
         IN  [texs EXCEPT ![id].data =
                [kind |-> "voxels", frame |-> 0,
                 layers |-> old.layers \cup layers,
                 texels |-> [d \in kept \cup {dest(k) : k \in copied} |->
                               IF d \in kept THEN old.texels[d]
                               ELSE packed.texels[CHOOSE k \in copied : dest(k) = d]]]]

\* write_to_texture, the palette as the vec4 elements it uploads.
PaletteVec4(palette) == [i \in 1..Len(palette) |-> <<palette[i], 1>>]

\* write_to_texture, the precondition checks in the order made.
WriteToTextureCheck(descr, chunk_index) ==
    IF descr.dimension # "D3" THEN "InvalidTextureDimension"
    ELSE IF UnwrapOr(descr.depth, 1) % CHUNK_SIZE # 0 THEN "InvalidTextureDepth"
    ELSE IF descr.width # CHUNK_SIZE \/ descr.height # CHUNK_SIZE
    THEN "InvalidTextureSize"
    ELSE IF chunk_index >= UnwrapOr(descr.depth, 1) \div CHUNK_SIZE
    THEN "InvalidChunksIndex"
    ELSE "Ok"

\* Chunk::write_to_texture.  A write the device refuses is an uncaptured
\* validation error (no error scope or handler is installed), which panics in
\* the call that made it; fill_exact's error panics in unwrap().
WriteToTexture(c, texs, bufs, chunks_texture, palettes_buffer, chunk_index) ==
    LET descr == chunks_texture.description
        check == WriteToTextureCheck(descr, chunk_index)
        origin == [x |-> 0, y |-> 0, z |-> 0]
        packed == DataToU8Slice(c)
        layout == [offset |-> SourceOffset(chunk_index),
                   bytes_per_row |-> 4 * descr.width,
                   rows_per_image |-> descr.height]
        extent == [width |-> CHUNK_SIZE, height |-> CHUNK_SIZE,
                   depth_or_array_layers |-> CHUNK_SIZE]
        textureOk == WriteTextureValid(texs, chunks_texture.texture, origin,
                                       packed.len, layout, extent)
        texture_write == [texture |-> chunks_texture.texture, origin |-> origin,
                          extent |-> extent,
                          source |-> [from |-> layout.offset,
                                      to |-> layout.offset
                                             + RequiredBytes(layout.bytes_per_row,
                                                             layout.rows_per_image,
                                                             extent),
                                      len |-> packed.len],
                          valid |-> textureOk]
        written == QueueWriteTexture(texs, chunks_texture.texture, origin, packed,
                                     layout, extent)
        filled == BufferFillExact(palettes_buffer, bufs, chunk_index,
                                  PaletteVec4(c.palette))
        bufferOk == filled.result = "Ok" /\ \A i \in 1..Len(filled.writes) :
                                               filled.writes[i].inBounds
    IN  IF check # "Ok"
        THEN [result |-> check, texs |-> texs, bufs |-> bufs,
              texture_writes |-> <<>>, buffer_writes |-> <<>>]
        ELSE IF ~textureOk
        THEN [result |-> "Panicked", texs |-> texs, bufs |-> bufs,
              texture_writes |-> <<texture_write>>, buffer_writes |-> <<>>]
        ELSE [result |-> IF bufferOk THEN "Ok" ELSE "Panicked",
              texs |-> written, bufs |-> filled.bufs,
              texture_writes |-> <<texture_write>>, buffer_writes |-> filled.writes]

\* ------------------------------------------------------------- VoxelModel
\* `x as u8`
AsU8(x) == x % 256

\* The coordinates load_vox creates a block for: all of 0..size-1 on each axis.
ModelCoords(size) ==
    {<<x, y, z>> : x \in 0..(size.x - 1), y \in 0..(size.y - 1), z \in 0..(size.z - 1)}

\* into_chunks, the keys of the chunks it creates.
ChunkGridKeys(size) ==
    LET chunks_x_size == size.x \div CHUNK_SIZE + 1
        chunks_y_size == size.y \div CHUNK_SIZE + 1
        chunks_z_size == size.z \div CHUNK_SIZE + 1
    IN  {<<AsU8(x), AsU8(y), AsU8(z)>> :
            x \in 0..(chunks_x_size - 1), y \in 0..(chunks_y_size - 1),
            z \in 0..(chunks_z_size - 1)}

BlockTargetUnreduced(k) ==
    [key |-> <<AsU8(k[1] \div CHUNK_SIZE), AsU8(k[2] \div CHUNK_SIZE),
               AsU8(k[3] \div CHUNK_SIZE)>>,
     local |-> k]

\* into_chunks, where the loop puts the block of model coordinate k: the key of
\* the chunk and the coordinates handed to set_block.
BlockTarget(k) ==
    LET chunk_x == k[1] \div CHUNK_SIZE
        chunk_y == k[2] \div CHUNK_SIZE
        chunk_z == k[3] \div CHUNK_SIZE
    IN  [key |-> <<AsU8(chunk_x), AsU8(chunk_y), AsU8(chunk_z)>>,
         local |-> << k[1] - chunk_x * CHUNK_SIZE, k[2] - chunk_y * CHUNK_SIZE,
                      k[3] - chunk_z * CHUNK_SIZE >>]

\* into_chunks, the loop that places the blocks.  It visits the entries of
\* self.blocks (a HashMap) in no particular order and calls set_block for each;
\* a cell ends up with the block of an entry that was put there.  The loop
\* panics when get_mut finds no chunk or set_block refuses the coordinates.
PlaceBlocks(m, chunks) ==
    LET sources(key) == {k \in DOMAIN m.blocks : BlockTarget(k).key = key}
        refused(k) ==
            LET t == BlockTarget(k)
            IN  \/ t.key \notin DOMAIN chunks
                \/ SetBlock(chunks[t.key], m.blocks[k],
                            t.local[1], t.local[2], t.local[3]).result # "Ok"
    IN  [panicked |-> \E k \in DOMAIN m.blocks : refused(k),
         chunks |->
            [key \in DOMAIN chunks |->
                [chunks[key] EXCEPT !.blocks =
                    [local \in {BlockTarget(k).local : k \in sources(key)} |->
                        m.blocks[CHOOSE k \in sources(key) :
                                    BlockTarget(k).local = local]]]]]

ChunkTranslationUncentred(key, size) ==
    <<key[1] * CHUNK_SIZE, key[2] * CHUNK_SIZE, key[3] * CHUNK_SIZE>>

\* into_chunks, the Transform of the chunk with the given key.
ChunkTranslation(key, size) ==
    << key[1] * CHUNK_SIZE - size.x \div 2,
       key[2] * CHUNK_SIZE - size.y \div 2,
       key[3] * CHUNK_SIZE - size.z \div 2 >>

\* VoxelModel::into_chunks; the Vec<ChunkBundle> it returns is kept by key.
IntoChunks(m) ==
    LET created == [key \in ChunkGridKeys(m.size) |-> ChunkNew(m.palette)]
        placed == PlaceBlocks(m, created)
    IN  [panicked |-> placed.panicked,
         bundles |-> [key \in DOMAIN placed.chunks |->
                        [chunk |-> placed.chunks[key],
                         transform |-> [translation |-> ChunkTranslation(key, m.size)]]]]

\* ---------------------------------------------- the Buffer<T> specification
ElemSizes == {4, 16}
BufferUsageChoices == {{"STORAGE"}, {"VERTEX"}, {"UNIFORM", "COPY_DST"}}
DataValues == {1, 2}
DataSeqs == UNION {[1..n -> DataValues] : n \in 0..MaxLen}

NoTexCall == [op |-> "new", width |-> 0, height |-> 0, preLive |-> {},
              pre |-> [texture |-> 0, view |-> 0, sampler |-> 0, description |-> <<>>]]

IdleTexture ==
    /\ gpuTextures = <<>>
    /\ tex = [texture |-> 0, view |-> 0, sampler |-> 0, description |-> <<>>]
    /\ texCall = NoTexCall

NoChunkCall == [op |-> "none"]

IdleChunk ==
    /\ model = <<>>
    /\ bundles = <<>>
    /\ chunk = <<>>
    /\ chunkCall = NoChunkCall

IdleFrame ==
    /\ renderer = <<>>
    /\ taa = <<>>
    /\ tracer = <<>>
    /\ frame = <<>>

IdleBuilder ==
    /\ builder = ShaderResourceBuilderNew
    /\ builderState = "idle"
    /\ adds = <<>>
    /\ shaderResource = NoShaderResource

NoCall == [op |-> "new", offset |-> 0, data |-> <<>>, capacity |-> 0,
           pre |-> [inner |-> 0, capacity |-> 0, elem |-> 0],
           preUsage |-> {}, preData |-> <<>>, result |-> "Ok", writes |-> <<>>]

InitBuffer ==
    \E capacity \in 0..MaxCap, usage \in BufferUsageChoices, elem \in ElemSizes :
        LET n == BufferNew(<<>>, capacity, usage, elem)
        IN  /\ buf = n.buffer
            /\ gpuBuffers = n.bufs
            /\ call = NoCall
            /\ IdleBuilder
            /\ IdleTexture
            /\ IdleFrame
            /\ IdleChunk

CallRecord(op, offset, data, capacity, result, writes) ==
    [op |-> op, offset |-> offset, data |-> data, capacity |-> capacity,
     pre |-> buf, preUsage |-> gpuBuffers[buf.inner].usage,
     preData |-> [i \in 1..buf.capacity |-> ReadElement(gpuBuffers, buf.inner, i)],
     result |-> result, writes |-> writes]

FillExact ==
    \E offset \in 0..MaxOffset, data \in DataSeqs :
        LET r == BufferFillExact(buf, gpuBuffers, offset, data)
        IN  /\ gpuBuffers' = r.bufs
            /\ buf' = buf
            /\ call' = CallRecord("fill_exact", offset, data, 0, r.result, r.writes)
            /\ UNCHANGED <<builderVars, gpuTextures, texVars, frameVars, chunkVars>>

Fill ==
    \E offset \in 0..MaxOffset, data \in DataSeqs :
        LET r == BufferFill(buf, gpuBuffers, offset, data)
        IN  /\ buf' = r.buffer
            /\ gpuBuffers' = Collect(r.bufs, {r.buffer.inner})
            /\ call' = CallRecord("fill", offset, data, 0, r.result, r.writes)
            /\ UNCHANGED <<builderVars, gpuTextures, texVars, frameVars, chunkVars>>

Resize ==
    \E capacity \in 0..MaxCap :
        LET r == BufferResize(buf, gpuBuffers, capacity)
        IN  /\ buf' = r.buffer
            /\ gpuBuffers' = Collect(r.bufs, {r.buffer.inner})
            /\ call' = CallRecord("resize", 0, <<>>, capacity, "Ok", <<>>)
            /\ UNCHANGED <<builderVars, gpuTextures, texVars, frameVars, chunkVars>>

NextBuffer == FillExact \/ Fill \/ Resize

SpecBuffer == InitBuffer /\ [][NextBuffer]_vars

\* ------------------------------------ the ShaderResourceBuilder specification
MaxAdds == 3

IdleBuffer ==
    /\ gpuBuffers = <<>>
    /\ buf = [inner |-> 0, capacity |-> 0, elem |-> 0]
    /\ call = NoCall

\* The k-th resource handed to the builder is a resource of its own.
BuilderBuffer(k) == [inner |-> k, capacity |-> 1, elem |-> 16]
BuilderTexture(k) ==
    [texture |-> k, view |-> k, sampler |-> k,
     description |-> [width |-> 1, height |-> 1, depth |-> None, filter |-> "Linear",
                      dimension |-> IF k % 2 = 0 THEN "D2" ELSE "D3",
                      usage |-> {"TEXTURE_BINDING"}, format |-> "Rgba8Uint",
                      label |-> "Builder"]]
StorageBufferDescriptor ==
    [visibility |-> {"COMPUTE", "FRAGMENT"}, buffer_type |-> "Storage"]

InitBuilder ==
    /\ builder = ShaderResourceBuilderNew
    /\ builderState = "open"
    /\ adds = <<>>
    /\ shaderResource = NoShaderResource
    /\ IdleBuffer
    /\ IdleTexture
    /\ IdleFrame
    /\ IdleChunk

BuilderAddBuffer ==
    /\ builderState = "open"
    /\ Len(adds) < MaxAdds
    /\ builder' = AddBuffer(builder, BuilderBuffer(Len(adds)), StorageBufferDescriptor)
    /\ adds' = Append(adds, [kind |-> "buffer", id |-> Len(adds), usage |-> {}])
    /\ UNCHANGED <<builderState, shaderResource, gpuBuffers, bufVars, gpuTextures, texVars, frameVars, chunkVars>>

BuilderAddTexture ==
    /\ builderState = "open"
    /\ Len(adds) < MaxAdds
    /\ \E usage \in SUBSET {"TEXTURE", "SAMPLER", "STORAGE"},
          sample_type \in {None, Some("Float")} :
          LET descriptor == [usage |-> usage, sample_type |-> sample_type]
          IN  IF AddTexturePanics(descriptor)
              THEN /\ builderState' = "panicked"
                   /\ UNCHANGED <<builder, adds>>
              ELSE /\ builder' = AddTexture(builder, BuilderTexture(Len(adds)), descriptor)
                   /\ adds' = Append(adds, [kind |-> "texture", id |-> Len(adds),
                                            usage |-> usage])
                   /\ UNCHANGED builderState
    /\ UNCHANGED <<shaderResource, gpuBuffers, bufVars, gpuTextures, texVars, frameVars, chunkVars>>

BuilderBuild ==
    /\ builderState = "open"
    /\ shaderResource' = Build(builder, {})
    /\ builderState' = "built"
    /\ UNCHANGED <<builder, adds, gpuBuffers, bufVars, gpuTextures, texVars, frameVars, chunkVars>>

NextBuilder == BuilderAddBuffer \/ BuilderAddTexture \/ BuilderBuild

SpecBuilder == InitBuilder /\ [][NextBuilder]_vars

\* --------------------------------------------------- the Texture specification
TextureUsageChoices ==
    {{"RENDER_ATTACHMENT", "COPY_SRC"}, {"TEXTURE_BINDING", "COPY_DST"}}

TextureDescriptors ==
    [width : 1..MaxDim, height : 1..MaxDim, depth : {None, Some(32)},
     filter : {"Linear", "Nearest"}, dimension : {"D2", "D3"},
     usage : TextureUsageChoices, format : {"Bgra8UnormSrgb", "Rgba8Uint"},
     label : {"TAA Color", "Chunks"}]

InitTexture ==
    /\ \E description \in TextureDescriptors :
          LET n == TextureNew(<<>>, description)
          IN  /\ tex = n.texture
              /\ gpuTextures = n.texs
    /\ texCall = NoTexCall
    /\ IdleBuffer
    /\ IdleBuilder
    /\ IdleFrame
    /\ IdleChunk

TexResize ==
    \E width \in 1..MaxDim, height \in 1..MaxDim :
        LET r == TextureResize(tex, gpuTextures, [width |-> width, height |-> height])
        IN  /\ tex' = r.texture
            /\ gpuTextures' = Collect(r.texs, {r.texture.texture})
            /\ texCall' = [op |-> "resize", width |-> width, height |-> height,
                           preLive |-> DOMAIN gpuTextures, pre |-> tex]
            /\ UNCHANGED <<gpuBuffers, bufVars, builderVars, frameVars, chunkVars>>

\* DrawContext::render_pass with the texture as the colour target, as the depth
\* target, or as both; a canvas is the colour target otherwise.
TexRenderPass ==
    \E colour \in {"canvas", "texture"}, depth \in {"none", "texture"} :
        LET canvas == IF colour = "canvas" THEN [kind |-> "canvas"]
                      ELSE [kind |-> "texture", texture |-> tex]
            depth_texture == IF depth = "none" THEN None ELSE Some(tex)
            r == DrawContextRenderPass(canvas, depth_texture)
        IN  /\ texCall' = [op |-> "render_pass", colour |-> colour, depth |-> depth,
                           panicked |-> r.panicked, begun |-> r.begun,
                           validation |-> r.validation]
            /\ UNCHANGED <<tex, gpuTextures, gpuBuffers, bufVars, builderVars,
                           frameVars, chunkVars>>

\* ComputePass::compute or RenderPass::draw on a pass just begun, with a
\* pipeline of either variant.
TexPassCommand ==
    \E pass \in {"compute", "draw"}, kind \in {"Compute", "Render"},
       instance_data \in {None, Some(7)}, bindings \in 0..2,
       drawable \in {None, Some([inner |-> 1, capacity |-> 36])} :
        LET pipeline == [kind |-> kind, id |-> 1]
            shader_bindings == [i \in 1..bindings |-> i]
            r == IF pass = "compute"
                 THEN PassCompute(instance_data, pipeline, shader_bindings,
                                  [width |-> tex.description.width,
                                   height |-> tex.description.height])
                 ELSE PassDraw(drawable, instance_data, pipeline, shader_bindings)
        IN  /\ pass = "compute" => drawable = None
            /\ texCall' = [op |-> pass, pipeline |-> pipeline,
                           instance_data |-> instance_data, bindings |-> bindings,
                           drawable |-> drawable, panicked |-> r.panicked,
                           commands |-> r.commands]
            /\ UNCHANGED <<tex, gpuTextures, gpuBuffers, bufVars, builderVars,
                           frameVars, chunkVars>>

NextTexture == TexResize \/ TexRenderPass \/ TexPassCommand

SpecTexture == InitTexture /\ [][NextTexture]_vars

\* ------------------------------------------ the VoxelModel specification
Palettes == {<<"red">>, <<"red", "green">>}
ModelSizes ==
    {[x |-> 1, y |-> 1, z |-> 1], [x |-> 2, y |-> 2, z |-> 2],
     [x |-> 32, y |-> 1, z |-> 1], [x |-> 33, y |-> 1, z |-> 2],
     [x |-> 1, y |-> 33, z |-> 1], [x |-> 2, y |-> 1, z |-> 33]}

\* The voxels of a model: none, the first and the last coordinate, or (in a
\* model of at most 8 blocks) all.
VoxelChoices(size) ==
    LET last == <<size.x - 1, size.y - 1, size.z - 1>>
    IN  {{}, {<<0, 0, 0>>}, {last}, {<<0, 0, 0>>, last}}
        \cup (IF size.x * size.y * size.z <= 8 THEN {ModelCoords(size)} ELSE {})

\* A VoxelModel as load_vox builds it: an inactive block for every coordinate
\* of the size, then the voxels set active with their colour index.
VoxelModelNew(size, palette, voxels, color_id) ==
    [blocks |-> [k \in ModelCoords(size) |->
                    IF k \in voxels THEN BlockNew(TRUE, color_id) ELSE BlockNew(FALSE, 0)],
     palette |-> palette,
     size |-> size]

\* The state after load_vox built a model; no Chunk of its own.
InitModel ==
    /\ \E size \in ModelSizes, palette \in Palettes, color_id \in {0, 1} :
          \E voxels \in VoxelChoices(size) :
             /\ model = VoxelModelNew(size, palette, voxels, color_id)
             /\ chunk = ChunkNew(palette)
    /\ bundles = <<>>
    /\ chunkCall = NoChunkCall
    /\ gpuBuffers = <<>>
    /\ gpuTextures = <<>>
    /\ IdleBuffer
    /\ IdleBuilder
    /\ IdleTexture
    /\ IdleFrame

\* VoxelModel::into_chunks
ModelIntoChunks ==
    /\ bundles = <<>>
    /\ LET r == IntoChunks(model)
       IN  /\ bundles' = r.bundles
           /\ chunkCall' = [op |-> "into_chunks", panicked |-> r.panicked]
    /\ UNCHANGED <<model, chunk, gpuBuffers, gpuTextures, bufVars, builderVars,
                   texVars, frameVars>>

\* Chunk::generate_mesh, on the chunk or on a chunk into_chunks returned.
ChunkGenerateMesh ==
    \E c \in {chunk} \cup {bundles[key].chunk : key \in DOMAIN bundles} :
        LET r == GenerateMesh(c)
        IN  /\ chunkCall' = [op |-> "generate_mesh", chunk |-> c,
                             panicked |-> r.panicked, vertex_data |-> r.vertex_data]
            /\ UNCHANGED <<model, bundles, chunk, gpuBuffers, gpuTextures, bufVars,
                           builderVars, texVars, frameVars>>

NextModel == ModelIntoChunks \/ ChunkGenerateMesh

SpecModel == InitModel /\ [][NextModel]_vars

\* ----------------------------------------------- the Chunk specification
\* The block coordinates set_block is called with: the first cell of the grid,
\* its neighbour on each axis, the last cell, and one cell past the grid on
\* each axis.
BlockCoords ==
    {<<0, 0, 0>>, <<1, 0, 0>>, <<0, 1, 0>>, <<0, 0, 1>>, <<31, 31, 31>>,
     <<32, 0, 0>>, <<0, 32, 0>>, <<0, 0, 32>>}

\* The state after Chunk::new.
InitChunk ==
    /\ \E palette \in Palettes : chunk = ChunkNew(palette)
    /\ model = <<>>
    /\ bundles = <<>>
    /\ chunkCall = NoChunkCall
    /\ gpuBuffers = <<>>
    /\ gpuTextures = <<>>
    /\ IdleBuffer
    /\ IdleBuilder
    /\ IdleTexture
    /\ IdleFrame

\* Chunk::set_block on the chunk, with at most MaxBlocks blocks stored.
ChunkSetBlock ==
    \E k \in BlockCoords, active \in BOOLEAN, color_id \in {0, 1} :
        LET r == SetBlock(chunk, BlockNew(active, color_id), k[1], k[2], k[3])
        IN  /\ Cardinality(DOMAIN r.chunk.blocks) <= MaxBlocks
            /\ chunk' = r.chunk
            /\ chunkCall' = [op |-> "set_block", result |-> r.result, x |-> k[1],
                             y |-> k[2], z |-> k[3],
                             block |-> BlockNew(active, color_id)]
            /\ UNCHANGED <<model, bundles, gpuBuffers, gpuTextures, bufVars,
                           builderVars, texVars, frameVars>>

NextChunk == ChunkSetBlock \/ ChunkGenerateMesh

SpecChunk == InitChunk /\ [][NextChunk]_vars

\* ------------------------------------------- the chunk atlas specification
\* The largest chunk_index write_to_texture is called with.
MaxChunkIndex == 2

\* The textures write_to_texture is handed: the tracer's kind of chunks texture
\* with room for one and for two chunks, and one that departs from it in its
\* depth, its width, its height or its dimension.
AtlasDescriptors ==
    LET descriptor(dimension, width, height, depth) ==
            [width |-> width, height |-> height, depth |-> depth,
             filter |-> "Nearest", dimension |-> dimension,
             usage |-> {"TEXTURE_BINDING", "COPY_DST"}, format |-> "Rgba8Uint",
             label |-> "Chunks"]
    IN  {descriptor("D3", CHUNK_SIZE, CHUNK_SIZE, depth) :
            depth \in {None, Some(CHUNK_SIZE), Some(CHUNK_SIZE + 16),
                       Some(2 * CHUNK_SIZE)}}
        \cup {descriptor("D2", CHUNK_SIZE, CHUNK_SIZE, Some(CHUNK_SIZE)),
              descriptor("D3", 16, CHUNK_SIZE, Some(CHUNK_SIZE)),
              descriptor("D3", CHUNK_SIZE, 16, Some(CHUNK_SIZE))}

\* The capacities of the palettes buffer, in vec4 elements: one element, and
\* the tracer's PALETTE_SIZE elements for each of two chunks.
AtlasCapacities == {1, PALETTE_SIZE * 2}

\* The chunks written: no block set, or one block set in the first cell, in the
\* last cell or in cell (1, 2, 3) of the grid.
AtlasChunks ==
    {ChunkNew(palette) : palette \in Palettes}
    \cup {SetBlock(ChunkNew(palette), BlockNew(b[1], b[2]), b[3][1], b[3][2], b[3][3]).chunk :
            palette \in Palettes,
            b \in {<<TRUE, 0, <<0, 0, 0>>>>, <<TRUE, 1, <<31, 31, 31>>>>,
                   <<FALSE, 1, <<0, 0, 0>>>>, <<TRUE, 0, <<1, 2, 3>>>>}}

\* The state after Texture::new and Buffer::new, with a chunk at hand.
InitAtlas ==
    /\ \E description \in AtlasDescriptors, capacity \in AtlasCapacities :
          LET t == TextureNew(<<>>, description)
              b == BufferNew(<<>>, capacity, {"STORAGE"}, 16)
          IN  /\ tex = t.texture
              /\ gpuTextures = t.texs
              /\ buf = b.buffer
              /\ gpuBuffers = b.bufs
    /\ chunk \in AtlasChunks
    /\ texCall = NoTexCall
    /\ call = NoCall
    /\ model = <<>>
    /\ bundles = <<>>
    /\ chunkCall = NoChunkCall
    /\ IdleBuilder
    /\ IdleFrame

\* A panic ended the program.
AtlasPanicked ==
    \/ chunkCall.op = "write_to_texture" /\ chunkCall.result = "Panicked"
    \/ chunkCall.op = "generate_mesh" /\ chunkCall.panicked

\* The caller turns to another chunk.
AtlasTakeChunk ==
    /\ ~AtlasPanicked
    /\ chunk' \in AtlasChunks \ {chunk}
    /\ UNCHANGED <<model, bundles, chunkCall, gpuBuffers, gpuTextures, bufVars,
                   builderVars, texVars, frameVars>>

\* chunk.write_to_texture(renderer, &tex, &buf, chunk_index)
AtlasWriteToTexture ==
    /\ ~AtlasPanicked
    /\ \E chunk_index \in 0..MaxChunkIndex :
          LET r == WriteToTexture(chunk, gpuTextures, gpuBuffers, tex, buf, chunk_index)
          IN  /\ gpuTextures' = r.texs
              /\ gpuBuffers' = r.bufs
              /\ chunkCall' = [op |-> "write_to_texture", chunk |-> chunk,
                               chunk_index |-> chunk_index, result |-> r.result,
                               texture_writes |-> r.texture_writes,
                               buffer_writes |-> r.buffer_writes,
                               preTexture |-> gpuTextures[tex.texture].data,
                               preBuffer |-> gpuBuffers[buf.inner].data]
    /\ UNCHANGED <<model, bundles, chunk, bufVars, builderVars, texVars, frameVars>>

\* chunk.generate_mesh()
AtlasGenerateMesh ==
    /\ ~AtlasPanicked
    /\ ChunkGenerateMesh

NextAtlas == AtlasTakeChunk \/ AtlasWriteToTexture \/ AtlasGenerateMesh

SpecAtlas == InitAtlas /\ [][NextAtlas]_vars

\* ------------------------------------------------- the frame specification
Jitters == {-1, 1}
\* Window sizes: widths up to MaxDim, heights up to 2; a zero is what a
\* minimised window reports.
Widths == 0..MaxDim
Heights == 0..2

BoundIds(resource, kinds) ==
    {resource.bind_group[i].resource.id :
        i \in {j \in 1..Len(resource.bind_group) :
                  resource.bind_group[j].resource.kind \in kinds}}

\* The textures and buffers that an owner or a bind group still refers to.
LiveTextures(r, ta, tr) ==
    {r.depth_texture.texture, ta.render_texture.texture, ta.history_texture.texture,
     tr.chunks_3d_texture.texture}
    \cup BoundIds(ta.shader_resource, {"TextureView", "Sampler"})
    \cup BoundIds(tr.shader_resource, {"TextureView", "Sampler"})

LiveBuffers(ta, tr) ==
    {ta.velocity_buffer.inner, ta.config_buffer.inner, tr.color_buffer.inner,
     tr.background_buffer.inner, tr.normal_buffer.inner, tr.depth_buffer.inner,
     tr.depth2_buffer.inner, tr.camera_buffer.inner, tr.palettes_buffer.inner}
    \cup BoundIds(ta.shader_resource, {"Buffer"})
    \cup BoundIds(tr.shader_resource, {"Buffer"})

NoResize == [render |-> FALSE, history |-> FALSE, velocity |-> FALSE]

NoFrame == [n |-> 0, result |-> "none", size |-> [width |-> 0, height |-> 0],
            trace |-> <<>>, encoder |-> <<>>, reads |-> <<>>, copied |-> <<>>,
            prevCopied |-> <<>>, presented |-> <<>>, resized |-> NoResize,
            rebuilt |-> FALSE, rebind |-> FALSE]

\* The state after Renderer::new and Engine::init (Tracer::new).
Init ==
    /\ \E width \in Widths \ {0}, height \in Heights \ {0} :
          LET size == [width |-> width, height |-> height]
              r  == RendererNew(size, <<>>)
              ta == TaaNew(size, r.texs, <<>>, {})
              tr == TracerNew(size, ta, {ta.taa.shader_resource.id})
          IN  /\ renderer = r.renderer
              /\ taa = ta.taa
              /\ tracer = tr.tracer
              /\ gpuTextures = tr.texs
              /\ gpuBuffers = tr.bufs
    /\ frame = NoFrame
    /\ buf = [inner |-> 0, capacity |-> 0, elem |-> 0]
    /\ call = NoCall
    /\ tex = [texture |-> 0, view |-> 0, sampler |-> 0, description |-> <<>>]
    /\ texCall = NoTexCall
    /\ IdleBuilder
    /\ IdleChunk

\* A window resize event: Renderer::resize_with.
ResizeWith ==
    \E width \in Widths, height \in Heights :
        LET r == RendererResizeWith(renderer, [width |-> width, height |-> height],
                                    gpuTextures)
        IN  /\ renderer' = r.renderer
            /\ gpuTextures' = Collect(r.texs, LiveTextures(r.renderer, taa, tracer))
            /\ UNCHANGED <<taa, tracer, frame, gpuBuffers, bufVars, builderVars, texVars,
                           chunkVars>>

ResizeIfStaleKeep(b, bufs, viewport_size) == [buffer |-> b, bufs |-> bufs]

ResizeIfStale(b, bufs, viewport_size) ==
    IF b.capacity # viewport_size
    THEN BufferResize(b, bufs, viewport_size)
    ELSE [buffer |-> b, bufs |-> bufs]

\* VoxelCraft::render, the resize-and-rebind of the tracer's resources.
TracerResizeRebind(tr, ta, size, bufs) ==
    LET viewport_size == size.width * size.height
        color  == ResizeIfStale(tr.color_buffer, bufs, viewport_size)
        backg  == ResizeIfStale(tr.background_buffer, color.bufs, viewport_size)
        normal == ResizeIfStale(tr.normal_buffer, backg.bufs, viewport_size)
        depth  == ResizeIfStale(tr.depth_buffer, normal.bufs, viewport_size)
        depth2 == ResizeIfStale(tr.depth2_buffer, depth.bufs, viewport_size)
        cameraStale == \/ tr.camera.image_width # size.width
                       \/ tr.camera.image_height # size.height
        camera == IF cameraStale
                  THEN RtCameraNew(size.width, size.height, 10, ta.current_jitter)
                  ELSE tr.camera
        camW   == IF cameraStale
                  THEN BufferFillExact(tr.camera_buffer, depth2.bufs, 0,
                                       <<UniformData(camera)>>)
                  ELSE [result |-> "Ok", bufs |-> depth2.bufs, writes |-> <<>>]
        rebind_resources ==
            \/ color.buffer # tr.color_buffer
            \/ backg.buffer # tr.background_buffer
            \/ normal.buffer # tr.normal_buffer
            \/ depth.buffer # tr.depth_buffer
            \/ depth2.buffer # tr.depth2_buffer
            \/ cameraStale
        t == [tr EXCEPT !.color_buffer = color.buffer,
                        !.background_buffer = backg.buffer,
                        !.normal_buffer = normal.buffer,
                        !.depth_buffer = depth.buffer,
                        !.depth2_buffer = depth2.buffer,
                        !.camera = camera]
    IN  [tracer |-> IF rebind_resources
                    THEN [t EXCEPT !.shader_resource =
                             TracerBuildResource(t, {ta.shader_resource.id,
                                                     tr.shader_resource.id})]
                    ELSE t,
         bufs |-> camW.bufs,
         rebind |-> rebind_resources]

RecordFrameCopyLast(tr, ta, r) ==
    LET bindings == <<ta.shader_resource, tr.shader_resource>>
        c1 == ComputePassCompute(DrawCtx, tr.rt_pipeline, bindings, r.size)
        c2 == RenderPassDraw(c1, TextureSurface(ta.render_texture), r.depth_texture,
                             tr.taa_pipeline, bindings)
        c3 == RenderPassDraw(c2, CanvasSurface, r.depth_texture, tr.taa_pipeline,
                             bindings)
    IN  CopyTexture(c3, ta.render_texture, ta.history_texture)

\* VoxelCraft::render, the commands it records into the frame's encoder.
RecordFrame(tr, ta, r) ==
    LET bindings == <<ta.shader_resource, tr.shader_resource>>
        c1 == ComputePassCompute(DrawCtx, tr.rt_pipeline, bindings, r.size)
        c2 == RenderPassDraw(c1, TextureSurface(ta.render_texture), r.depth_texture,
                             tr.taa_pipeline, bindings)
        c3 == CopyTexture(c2, ta.render_texture, ta.history_texture)
    IN  RenderPassDraw(c3, CanvasSurface, r.depth_texture, tr.taa_pipeline, bindings)

StepName(cmd) ==
    IF cmd.op = "render_pass" THEN <<cmd.op, cmd.target.kind>> ELSE <<cmd.op, "">>

\* VoxelCraft::render with a canvas acquired.
Render ==
    /\ frame.n < MaxFrames
    /\ \E jitter \in Jitters :
          LET u  == TaaUpdate(taa, renderer.size, jitter, gpuTextures, gpuBuffers,
                              {taa.shader_resource.id, tracer.shader_resource.id})
              t  == TracerResizeRebind(tracer, u.taa, renderer.size, u.bufs)
              encoder == RecordFrame(t.tracer, u.taa, renderer)
              n  == frame.n + 1
              st == QueueSubmit([texs |-> u.texs, canvas |-> <<>>, reads |-> <<>>,
                                 copied |-> <<>>], encoder, n)
          IN  /\ ~u.panicked
              /\ taa' = u.taa
              /\ tracer' = t.tracer
              /\ gpuTextures' = Collect(st.texs, LiveTextures(renderer, u.taa, t.tracer))
              /\ gpuBuffers' = Collect(t.bufs, LiveBuffers(u.taa, t.tracer))
              /\ frame' = [n |-> n, result |-> "Ok", size |-> renderer.size,
                           trace |-> <<<<"acquire_canvas", "">>, <<"taa_update", "">>,
                                       <<"resize_rebind", "">>>>
                                     \o [i \in 1..Len(encoder) |-> StepName(encoder[i])]
                                     \o <<<<"submit", "">>, <<"present", "">>>>,
                           encoder |-> encoder,
                           reads |-> st.reads,
                           copied |-> st.copied,
                           prevCopied |-> frame.copied,
                           presented |-> st.canvas,
                           resized |->
                              [render |-> u.taa.render_texture.texture
                                             # taa.render_texture.texture,
                               history |-> u.taa.history_texture.texture
                                              # taa.history_texture.texture,
                               velocity |-> u.taa.velocity_buffer.inner
                                               # taa.velocity_buffer.inner],
                           rebuilt |-> u.taa.shader_resource.id
                                          # taa.shader_resource.id,
                           rebind |-> t.rebind]
    /\ UNCHANGED <<renderer, bufVars, builderVars, texVars, chunkVars>>

RenderNoCanvasTaaFirst ==
    /\ \E jitter \in Jitters : taa' = [taa EXCEPT !.current_jitter = jitter]
    /\ frame' = [NoFrame EXCEPT !.n = frame.n, !.result = "Err",
                                !.size = frame.size, !.copied = frame.copied]
    /\ UNCHANGED <<renderer, tracer, gpuTextures, gpuBuffers, bufVars,
                   builderVars, texVars, chunkVars>>

\* VoxelCraft::render when Renderer::canvas fails: the error is returned at once.
RenderNoCanvas ==
    /\ frame' = [NoFrame EXCEPT !.n = frame.n, !.result = "Err",
                                !.size = frame.size, !.copied = frame.copied]
    /\ UNCHANGED <<renderer, taa, tracer, gpuTextures, gpuBuffers, bufVars,
                   builderVars, texVars, chunkVars>>

Next == ResizeWith \/ Render \/ RenderNoCanvas

Spec == Init /\ [][Next]_vars

\* ------------------------------------------------ the Drawable specification
\* Renderer::create_vertex_buffer; a BufferId is the index in vertex_buffers,
\* from 0, and a Vertex is 36 bytes (two Vec3 and a Color of three f32).
CreateVertexBuffer(r, bufs, capacity) ==
    LET b == BufferNew(bufs, capacity, {"VERTEX"}, 36)
    IN  [id |-> Len(r.vertex_buffers),
         renderer |-> [r EXCEPT !.vertex_buffers = Append(@, b.buffer)],
         bufs |-> b.bufs]

\* Renderer::update_vertex_buffer
UpdateVertexBuffer(r, bufs, id, data) ==
    IF id + 1 \notin DOMAIN r.vertex_buffers
    THEN [result |-> "InvalidBufferId", renderer |-> r, bufs |-> bufs]
    ELSE LET exact == BufferFillExact(r.vertex_buffers[id + 1], bufs, 0, data)
             filled == BufferFill(r.vertex_buffers[id + 1], bufs, 0, data)
         IN  IF exact.result # "Ok"
             THEN [result |-> "Ok",
                   renderer |-> [r EXCEPT !.vertex_buffers[id + 1] = filled.buffer],
                   bufs |-> filled.bufs]
             ELSE [result |-> "Ok", renderer |-> r, bufs |-> exact.bufs]

\* The state after Chunk::new, with a renderer that has no vertex buffer yet.
InitDrawable ==
    /\ chunk = ChunkNew(<<"red">>)
    /\ renderer = [vertex_buffers |-> <<>>]
    /\ gpuBuffers = <<>>
    /\ chunkCall = NoChunkCall
    /\ model = <<>>
    /\ bundles = <<>>
    /\ taa = <<>>
    /\ tracer = <<>>
    /\ frame = <<>>
    /\ gpuTextures = <<>>
    /\ buf = [inner |-> 0, capacity |-> 0, elem |-> 0]
    /\ call = NoCall
    /\ IdleTexture
    /\ IdleBuilder

\* Chunk::set_block between updates, on two neighbouring cells and one cell
\* apart from them.
DrawableSetBlock ==
    \E k \in {<<0, 0, 0>>, <<1, 0, 0>>, <<0, 0, 2>>}, active \in BOOLEAN :
        LET r == SetBlock(chunk, BlockNew(active, 0), k[1], k[2], k[3])
        IN  /\ chunk' = r.chunk
            /\ chunkCall' = [op |-> "set_block", result |-> r.result, x |-> k[1],
                             y |-> k[2], z |-> k[3], block |-> BlockNew(active, 0)]
            /\ UNCHANGED <<model, bundles, gpuBuffers, gpuTextures, bufVars,
                           builderVars, texVars, frameVars>>

\* impl Drawable for Chunk, fn update
DrawableUpdate ==
    LET mesh == GenerateMesh(chunk)
        created == IF chunk.vertex_buffer = None
                   THEN CreateVertexBuffer(renderer, gpuBuffers, Len(mesh.vertex_data))
                   ELSE [id |-> chunk.vertex_buffer[1], renderer |-> renderer,
                         bufs |-> gpuBuffers]
        updated == UpdateVertexBuffer(created.renderer, created.bufs, created.id,
                                      mesh.vertex_data)
    IN  /\ ~mesh.panicked
        /\ updated.result = "Ok"
        /\ chunk' = [chunk EXCEPT !.vertex_buffer = Some(created.id)]
        /\ renderer' = updated.renderer
        /\ gpuBuffers' = Collect(updated.bufs,
                                 {updated.renderer.vertex_buffers[i].inner :
                                     i \in DOMAIN updated.renderer.vertex_buffers})
        /\ chunkCall' = [op |-> "update", vertex_buffer |-> chunk.vertex_buffer,
                         vertices |-> Len(mesh.vertex_data)]
        /\ UNCHANGED <<model, bundles, taa, tracer, frame, gpuTextures, bufVars,
                       builderVars, texVars>>

NextDrawable == DrawableSetBlock \/ DrawableUpdate

SpecDrawable == InitDrawable /\ [][NextDrawable]_vars

\* ------------------------------------------------ the game loop specification
\* impl From<wgpu::SurfaceError> for RenderError
RenderErrorFrom(value) ==
    CASE value = "Lost" -> "Lost"
      [] value = "OutOfMemory" -> "OutOfMemory"
      [] OTHER -> "SurfaceError"

\* The state after Game::new and Engine::init, before the first iteration.
InitGame ==
    /\ \E width \in Widths \ {0}, height \in Heights \ {0} :
          LET r == RendererNew([width |-> width, height |-> height], <<>>)
          IN  /\ renderer = r.renderer
              /\ gpuTextures = r.texs
    /\ frame = [n |-> 0, result |-> "none", surface_error |-> "none",
                error |-> "none", resized |-> FALSE, exited |-> FALSE]
    /\ taa = <<>>
    /\ tracer = <<>>
    /\ gpuBuffers = <<>>
    /\ buf = [inner |-> 0, capacity |-> 0, elem |-> 0]
    /\ call = NoCall
    /\ tex = [texture |-> 0, view |-> 0, sampler |-> 0, description |-> <<>>]
    /\ texCall = NoTexCall
    /\ IdleBuilder
    /\ IdleChunk

\* Game::run, the render closure: g.game.render() and the match on its result.
\* The render fails when get_current_texture returns a wgpu::SurfaceError.
GameLoopRender ==
    /\ ~frame.exited
    /\ frame.n < MaxFrames + 1
    /\ \E outcome \in {"Ok", "Lost", "Outdated", "Timeout", "OutOfMemory"} :
          LET error == IF outcome = "Ok" THEN "none" ELSE RenderErrorFrom(outcome)
              resize == error = "Lost"
              r == IF resize
                   THEN RendererResizeWith(renderer, renderer.size, gpuTextures)
                   ELSE [renderer |-> renderer, texs |-> gpuTextures]
          IN  /\ renderer' = r.renderer
              /\ gpuTextures' = Collect(r.texs, {r.renderer.depth_texture.texture})
              /\ frame' = [n |-> frame.n + 1,
                           result |-> IF outcome = "Ok" THEN "Ok" ELSE "Err",
                           surface_error |-> IF outcome = "Ok" THEN "none" ELSE outcome,
                           error |-> error,
                           resized |-> resize,
                           exited |-> error = "OutOfMemory"]
    /\ UNCHANGED <<taa, tracer, gpuBuffers, bufVars, builderVars, texVars, chunkVars>>

\* Game::run, the event closure on WindowEvent::Resized.
GameLoopResized ==
    /\ ~frame.exited
    /\ \E width \in Widths, height \in Heights :
          LET r == RendererResizeWith(renderer, [width |-> width, height |-> height],
                                      gpuTextures)
          IN  /\ renderer' = r.renderer
              /\ gpuTextures' = Collect(r.texs, {r.renderer.depth_texture.texture})
    /\ UNCHANGED <<frame, taa, tracer, gpuBuffers, bufVars, builderVars, texVars,
                   chunkVars>>

NextGame == GameLoopRender \/ GameLoopResized

SpecGame == InitGame /\ [][NextGame]_vars

\* ------------------------------------------------------- claims: Buffer<T>

\* C5: fill_exact(offset, data) returns Ok if and only if offset + L <= C;
\* otherwise it returns BufferOverflow and issues no device write; with empty
\* data it issues no write.  (The equivalence is stated for non-empty data, the
\* case in which a device write is at stake.)
C5_FillExactBounds ==
    call.op = "fill_exact" =>
        /\ call.data # <<>> =>
              ((call.result = "Ok") <=>
                  (call.offset + Len(call.data) <= call.pre.capacity))
        /\ call.result = "BufferOverflow" => call.writes = <<>>
        /\ call.data = <<>> => call.writes = <<>>

\* C6: fill(offset, data) whose write would exceed the capacity leaves
\* capacity >= L in a fresh allocation with the data readable from element 0;
\* a write that fits reallocates nothing and keeps the device handle.  (The
\* grow path is stated for L > C, which both readings of "would exceed" cover.)
C6_FillGrow ==
    call.op = "fill" =>
        /\ Len(call.data) > call.pre.capacity =>
              /\ buf.capacity >= Len(call.data)
              /\ buf.inner # call.pre.inner
              /\ \A i \in 1..Len(call.data) :
                    ReadElement(gpuBuffers, buf.inner, i) = call.data[i]
        /\ call.offset + Len(call.data) <= call.pre.capacity =>
              /\ buf.inner = call.pre.inner
              /\ buf.capacity = call.pre.capacity

\* C7: resize(c) always replaces the device handle (also when c is the current
\* capacity), sets capacity to c with an allocation of c * sizeof(T) bytes,
\* discards the old contents and keeps the usage flags.
C7_ResizeReplaces ==
    call.op = "resize" =>
        /\ buf.inner # call.pre.inner
        /\ buf.capacity = call.capacity
        /\ buf.elem = call.pre.elem
        /\ gpuBuffers[buf.inner].size = call.capacity * buf.elem
        /\ \A i \in 1..call.capacity : ReadElement(gpuBuffers, buf.inner, i) = 0
        /\ gpuBuffers[buf.inner].usage = call.preUsage
        /\ DOMAIN gpuBuffers = {buf.inner}

\* A resize to the capacity the buffer already has, of a buffer that held data.
C7_Witness ==
    /\ call.op = "resize"
    /\ call.capacity = call.pre.capacity
    /\ call.capacity > 0
    /\ \A i \in 1..call.capacity : call.preData[i] # 0
    /\ "VERTEX" \in call.preUsage

\* --------------------------------------- claims: ShaderResourceBuilder
\* The binding slots one add call consumes, by the claim's count: one for a
\* buffer, one per usage flag set for a texture.
Slots(a) == IF a.kind = "buffer" THEN 1 ELSE Cardinality(a.usage)

RECURSIVE SlotsBefore(_)
SlotsBefore(k) == IF k <= 1 THEN 0 ELSE SlotsBefore(k - 1) + Slots(adds[k - 1])

LayoutKindsOf(a) ==
    IF a.kind = "buffer" THEN {"Buffer"}
    ELSE {CASE f = "TEXTURE" -> "Texture"
            [] f = "SAMPLER" -> "Sampler"
            [] f = "STORAGE" -> "StorageTexture" : f \in a.usage}

\* C8: after any sequence of add_buffer / add_texture calls the layout's binding
\* indices are exactly 0, 1, ..., n-1, a buffer takes one index and a texture one
\* per usage flag set, and each resource's first index is the number of slots the
\* resources added before it consumed.
C8_BindingContiguity ==
    LET l == builder.bind_group_layout_entries
        e == builder.bind_group_entries
    IN  /\ Len(l) = SlotsBefore(Len(adds) + 1)
        /\ \A i \in 1..Len(l) : l[i].binding = i - 1
        /\ \A k \in 1..Len(adds) :
              \A j \in 1..Slots(adds[k]) :
                 /\ l[SlotsBefore(k) + j].binding = SlotsBefore(k) + j - 1
                 /\ l[SlotsBefore(k) + j].ty.kind \in LayoutKindsOf(adds[k])
                 /\ e[SlotsBefore(k) + j].resource.id = adds[k].id

\* A texture with SAMPLER | STORAGE usage (no TEXTURE) followed by a buffer.
C8_Witness ==
    /\ Len(adds) = 3
    /\ \E k \in 1..2 : /\ adds[k].kind = "texture"
                       /\ adds[k].usage = {"SAMPLER", "STORAGE"}
                       /\ adds[k + 1].kind = "buffer"

KindAgrees(layoutKind, resourceKind) ==
    \/ layoutKind = "Buffer" /\ resourceKind = "Buffer"
    \/ layoutKind \in {"Texture", "StorageTexture"} /\ resourceKind = "TextureView"
    \/ layoutKind = "Sampler" /\ resourceKind = "Sampler"

AspectRank(layoutKind) ==
    CASE layoutKind = "Texture" -> 1
      [] layoutKind = "Sampler" -> 2
      [] layoutKind = "StorageTexture" -> 3
      [] OTHER -> 0

\* C9: at build() the layout entries and the bound-resource entries have the same
\* length and the same binding index at every position, the kinds agree position
\* by position, and the aspects of one texture come in the order TEXTURE,
\* SAMPLER, STORAGE.
C9_LayoutMatchesEntries ==
    builderState = "built" =>
        LET l == shaderResource.bind_group_layout
            e == shaderResource.bind_group
        IN  /\ Len(l) = Len(e)
            /\ \A i \in 1..Len(l) :
                  /\ l[i].binding = e[i].binding
                  /\ KindAgrees(l[i].ty.kind, e[i].resource.kind)
            /\ \A k \in 1..Len(adds) :
                  adds[k].kind = "texture" =>
                     /\ {l[SlotsBefore(k) + j].ty.kind : j \in 1..Slots(adds[k])}
                            = LayoutKindsOf(adds[k])
                     /\ \A i, j \in 1..Slots(adds[k]) :
                           i < j => AspectRank(l[SlotsBefore(k) + i].ty.kind)
                                      < AspectRank(l[SlotsBefore(k) + j].ty.kind)

\* A built resource of a buffer and a texture with all three aspects.
C9_Witness ==
    /\ builderState = "built"
    /\ \E k \in 1..Len(adds) : adds[k].kind = "buffer"
    /\ \E k \in 1..Len(adds) :
          adds[k].kind = "texture" /\ adds[k].usage = {"TEXTURE", "SAMPLER", "STORAGE"}
    /\ Len(shaderResource.bind_group) >= 4

\* ------------------------------------------------------ claims: Texture
\* C10: after Texture::resize(w, h) the stored descriptor has width w and height
\* h, every other field has its value from before the call, and the image, the
\* view and the sampler are newly created from that descriptor.
C10_TextureResizeTotal ==
    texCall.op = "resize" =>
        LET d == tex.description
            p == texCall.pre.description
            image == gpuTextures[tex.texture]
        IN  /\ d.width = texCall.width
            /\ d.height = texCall.height
            /\ d.depth = p.depth
            /\ d.filter = p.filter
            /\ d.dimension = p.dimension
            /\ d.usage = p.usage
            /\ d.format = p.format
            /\ d.label = p.label
            /\ tex.texture \notin texCall.preLive
            /\ tex.view \notin texCall.preLive
            /\ tex.sampler \notin texCall.preLive
            /\ image.size.width = texCall.width
            /\ image.size.height = texCall.height
            /\ image.size.depth_or_array_layers = (IF p.depth = None THEN 1 ELSE p.depth[1])
            /\ image.dimension = p.dimension
            /\ image.format = p.format
            /\ image.usage = p.usage
            /\ image.filter = p.filter
            /\ image.data = Blank

\* A resize of a 3D texture with a depth to a non-square size that differs from
\* the size it had.
C10_Witness ==
    /\ texCall.op = "resize"
    /\ texCall.width # texCall.height
    /\ texCall.pre.description.width # texCall.width
    /\ texCall.pre.description.depth = Some(32)
    /\ texCall.pre.description.dimension = "D3"
    /\ texCall.pre.description.filter = "Nearest"

\* ---------------------------------------------------- claims: Taa and frame
TaaBoundResources ==
    [i \in 1..Len(taa.shader_resource.bind_group) |->
        taa.shader_resource.bind_group[i].resource]

\* C1: Taa::update rebuilds the TAA ShaderResource if and only if the render
\* texture, the history texture or the velocity buffer was resized during the
\* call; and whatever viewport changes came before, the handles bound in
\* taa.shader_resource are the current handles of the history texture (view and
\* sampler), the velocity buffer and the config buffer, all of them alive.
C1_TaaRebuildIffResized ==
    /\ frame.result = "Ok" =>
          (frame.rebuilt <=>
              (frame.resized.render \/ frame.resized.history \/ frame.resized.velocity))
    /\ TaaBoundResources =
          << [kind |-> "TextureView", id |-> taa.history_texture.view],
             [kind |-> "Sampler", id |-> taa.history_texture.sampler],
             [kind |-> "Buffer", id |-> taa.velocity_buffer.inner],
             [kind |-> "Buffer", id |-> taa.config_buffer.inner] >>
    /\ taa.history_texture.texture \in DOMAIN gpuTextures
    /\ {taa.velocity_buffer.inner, taa.config_buffer.inner} \subseteq DOMAIN gpuBuffers

\* A second frame, after a viewport change that keeps the pixel count: both
\* textures were resized, the velocity buffer was not, the resource was rebuilt.
C1_Witness ==
    /\ frame.result = "Ok"
    /\ frame.n = 2
    /\ frame.resized.render /\ frame.resized.history /\ ~frame.resized.velocity
    /\ frame.rebuilt

\* The copy command of the last frame's encoder.
FrameCopy ==
    frame.encoder[CHOOSE i \in 1..Len(frame.encoder) : frame.encoder[i].op = "copy"]

\* C2: after every Taa::update, whatever resize_with calls came before it, the
\* render texture and the history texture have the width and height of
\* renderer.size() and the velocity buffer's capacity is width * height; so the
\* render-to-history copy is between two images of the same extent.
C2_TaaMatchesViewport ==
    frame.result = "Ok" =>
        LET render == taa.render_texture
            history == taa.history_texture
            extent == [width |-> frame.size.width, height |-> frame.size.height,
                       depth_or_array_layers |-> 1]
        IN  /\ render.description.width = frame.size.width
            /\ render.description.height = frame.size.height
            /\ history.description.width = frame.size.width
            /\ history.description.height = frame.size.height
            /\ taa.velocity_buffer.capacity = frame.size.width * frame.size.height
            /\ gpuBuffers[taa.velocity_buffer.inner].size
                  = frame.size.width * frame.size.height * taa.velocity_buffer.elem
            /\ gpuTextures[render.texture].size = extent
            /\ gpuTextures[history.texture].size = extent
            /\ FrameCopy.from = render.texture
            /\ FrameCopy.to = history.texture
            /\ FrameCopy.extent = extent

\* A frame after a viewport change to a non-square size of another pixel count.
C2_Witness ==
    /\ frame.result = "Ok"
    /\ frame.n >= 2
    /\ frame.resized.render /\ frame.resized.history /\ frame.resized.velocity
    /\ frame.size.width # frame.size.height

\* C3: a frame that acquires a canvas records each step once, in the order TAA
\* update, resize-and-rebind, compute dispatch, render pass into the TAA render
\* texture, copy of the render texture into the history texture, render pass
\* into the canvas, submit, present, all in one encoder.
C3_FrameOrder ==
    frame.result = "Ok" =>
        /\ frame.trace = << <<"acquire_canvas", "">>, <<"taa_update", "">>,
                            <<"resize_rebind", "">>, <<"compute", "">>,
                            <<"render_pass", "texture">>, <<"copy", "">>,
                            <<"render_pass", "canvas">>, <<"submit", "">>,
                            <<"present", "">> >>
        /\ Len(frame.encoder) = 4
        /\ frame.encoder[2].target = TextureSurface(taa.render_texture)
        /\ frame.encoder[3].from = taa.render_texture.texture
        /\ frame.encoder[3].to = taa.history_texture.texture
        /\ frame.encoder[4].target = CanvasSurface
        /\ frame.presented = <<FrameOutput(frame.n)>>

\* A frame in which the tracer's buffers were resized and rebound.
C3_Witness ==
    /\ frame.result = "Ok"
    /\ frame.n = 2
    /\ frame.rebind
    /\ frame.resized.velocity

\* C4 as claimed: of two consecutive rendered frames, the first composite pass of
\* the second reads from the history texture what the first copied into it.
C4_HistoryCarried ==
    (frame.result = "Ok" /\ frame.n >= 2) =>
        /\ frame.prevCopied = <<FrameOutput(frame.n - 1)>>
        /\ frame.reads[1] = frame.prevCopied[1]

\* C4, amended: every rendered frame copies its own composited output into the
\* history texture; the first composite pass of the next rendered frame reads
\* that output when its Taa::update leaves the history texture in place, and
\* reads the blank contents of a new history texture when the viewport size
\* changed in between and Taa::update resized it.
C4_HistoryCarriedUnlessResized ==
    /\ frame.result = "Ok" => frame.copied = <<FrameOutput(frame.n)>>
    /\ (frame.result = "Ok" /\ frame.n >= 2) =>
          /\ frame.prevCopied = <<FrameOutput(frame.n - 1)>>
          /\ frame.reads[1] = (IF frame.resized.history
                               THEN Blank
                               ELSE frame.prevCopied[1])

\* A second frame at the size of the first: it read the first frame's output.
C4_Witness ==
    /\ frame.result = "Ok"
    /\ frame.n = 2
    /\ ~frame.resized.history
    /\ frame.reads[1] = FrameOutput(1)

\* -------------------------------------------------- claims: render targets
\* C11: when a Texture whose descriptor lacks RENDER_ATTACHMENT is passed to
\* DrawContext::render_pass as the colour target or as the depth target, the
\* call panics and no render pass is begun.
C11_RenderTargetFailsFast ==
    (/\ texCall.op = "render_pass"
     /\ "RENDER_ATTACHMENT" \notin tex.description.usage
     /\ (texCall.colour = "texture" \/ texCall.depth = "texture")) =>
        (texCall.panicked /\ ~texCall.begun)

\* ------------------------------------------------------ claims: meshing
Directions == {"front", "back", "left", "right", "bottom", "top"}

\* The neighbour of cell k in a direction, by the face the Mesh methods build:
\* front is the z side, back the z + 1 side, left x, right x + 1, bottom y,
\* top y + 1.
Neighbour(k, d) ==
    CASE d = "front"  -> <<k[1], k[2], k[3] - 1>>
      [] d = "back"   -> <<k[1], k[2], k[3] + 1>>
      [] d = "left"   -> <<k[1] - 1, k[2], k[3]>>
      [] d = "right"  -> <<k[1] + 1, k[2], k[3]>>
      [] d = "bottom" -> <<k[1], k[2] - 1, k[3]>>
      [] d = "top"    -> <<k[1], k[2] + 1, k[3]>>

ActiveCells(c) == {k \in DOMAIN c.blocks : c.blocks[k].active}

\* The faces a chunk must show: an active cell and a direction whose neighbour
\* is outside the grid or not active.
ExposedFaces(c) ==
    {<<k, d>> \in ActiveCells(c) \X Directions :
        LET n == Neighbour(k, d)
        IN  ~InGrid(n[1], n[2], n[3]) \/ n \notin ActiveCells(c)}

\* The four corners of the unit square that is the face d of cell k.
FaceCorners(k, d) ==
    LET lo(axis) == IF (axis = 1 /\ d = "right") \/ (axis = 2 /\ d = "top")
                       \/ (axis = 3 /\ d = "back")
                    THEN k[axis] + 1 ELSE k[axis]
        hi(axis) == IF (axis = 1 /\ d = "left") \/ (axis = 2 /\ d = "bottom")
                       \/ (axis = 3 /\ d = "front")
                    THEN k[axis] ELSE k[axis] + 1
    IN  {<<x, y, z>> : x \in {lo(1), hi(1)}, y \in {lo(2), hi(2)}, z \in {lo(3), hi(3)}}

\* The i-th group of six vertices of a vertex list is the face d of cell k.
IsFace(vertex_data, i, k, d) ==
    {vertex_data[j].position : j \in (6 * i - 5)..(6 * i)} = FaceCorners(k, d)

\* C12: for a chunk whose active blocks have valid palette indices,
\* generate_mesh emits a face for an (active block, direction) pair if and only
\* if the neighbour in that direction is outside the grid or inactive, six
\* vertices per face, each face once: one isolated active block gives 36
\* vertices, two face-adjacent active blocks give 60.
C12_MeshFaceCulling ==
    (chunkCall.op = "generate_mesh" /\ ~chunkCall.panicked) =>
        LET c == chunkCall.chunk
            vertex_data == chunkCall.vertex_data
            faces == ExposedFaces(c)
        IN  /\ Len(vertex_data) = 6 * Cardinality(faces)
            /\ \A f \in faces :
                  Cardinality({i \in 1..Cardinality(faces) :
                                  IsFace(vertex_data, i, f[1], f[2])}) = 1
            /\ \A i \in 1..Len(vertex_data) :
                  \E k \in ActiveCells(c) :
                      vertex_data[i].color = c.palette[c.blocks[k].color_id + 1]
            /\ Cardinality(ActiveCells(c)) = 1 => Len(vertex_data) = 36
            /\ (\E k \in ActiveCells(c), d \in Directions :
                   ActiveCells(c) = {k, Neighbour(k, d)} /\ InGrid(Neighbour(k, d)[1],
                       Neighbour(k, d)[2], Neighbour(k, d)[3]))
                  => Len(vertex_data) = 60

\* A mesh of two face-adjacent active blocks, one of them on the grid's edge.
C12_Witness ==
    /\ chunkCall.op = "generate_mesh"
    /\ ~chunkCall.panicked
    /\ ActiveCells(chunkCall.chunk) = {<<0, 0, 0>>, <<0, 1, 0>>}
    /\ Len(chunkCall.vertex_data) = 60

\* -------------------------------------------------- claims: into_chunks
\* The model coordinate that cell `local` of the chunk with key `key` stands for.
ModelCoordOf(key, local) ==
    << key[1] * CHUNK_SIZE + local[1], key[2] * CHUNK_SIZE + local[2],
       key[3] * CHUNK_SIZE + local[3] >>

\* C13: into_chunks puts every voxel coordinate (x, y, z) of the model in
\* exactly one chunk, the one with key (x/32, y/32, z/32), at local offset
\* (x mod 32, y mod 32, z mod 32); the chunks together give back the model's
\* coordinate-to-block mapping, nothing lost, duplicated or misplaced; every
\* chunk of the dense grid is created, also an empty one; it never panics.
C13_PartitionComplete ==
    bundles # <<>> =>
        /\ chunkCall.op = "into_chunks" => ~chunkCall.panicked
        /\ DOMAIN bundles =
              {<<a, b, c>> : a \in 0..(model.size.x \div CHUNK_SIZE),
                             b \in 0..(model.size.y \div CHUNK_SIZE),
                             c \in 0..(model.size.z \div CHUNK_SIZE)}
        /\ \A k \in DOMAIN model.blocks :
              LET key == <<k[1] \div CHUNK_SIZE, k[2] \div CHUNK_SIZE,
                           k[3] \div CHUNK_SIZE>>
                  local == <<k[1] % CHUNK_SIZE, k[2] % CHUNK_SIZE, k[3] % CHUNK_SIZE>>
              IN  /\ key \in DOMAIN bundles
                  /\ local \in DOMAIN bundles[key].chunk.blocks
                  /\ bundles[key].chunk.blocks[local] = model.blocks[k]
                  /\ \A other \in DOMAIN bundles :
                        \A cell \in DOMAIN bundles[other].chunk.blocks :
                           ModelCoordOf(other, cell) = k => (other = key /\ cell = local)
        /\ \A key \in DOMAIN bundles :
              /\ bundles[key].chunk.palette = model.palette
              /\ \A local \in DOMAIN bundles[key].chunk.blocks :
                    /\ InGrid(local[1], local[2], local[3])
                    /\ ModelCoordOf(key, local) \in DOMAIN model.blocks

\* A model 33 blocks long with a voxel in each of two chunks, partitioned.
C13_Witness ==
    /\ chunkCall.op = "into_chunks"
    /\ model.size.x = 33
    /\ Cardinality(DOMAIN bundles) = 2
    /\ \A key \in DOMAIN bundles : ActiveCells(bundles[key].chunk) # {}

AllActive2x2x2 ==
    /\ model # <<>>
    /\ model.size = [x |-> 2, y |-> 2, z |-> 2]
    /\ Len(model.palette) = 1
    /\ \A k \in DOMAIN model.blocks :
          model.blocks[k].active /\ model.blocks[k].color_id = 0

\* C15: a 2x2x2 all-active model with a 1-entry palette partitions into exactly
\* one chunk, and generate_mesh on that chunk yields 144 vertices: the 24
\* exposed unit faces, no face between two of the 8 blocks.
C15_TwoCubedEndToEnd ==
    (AllActive2x2x2 /\ bundles # <<>>) =>
        /\ Cardinality(DOMAIN bundles) = 1
        /\ (chunkCall.op = "generate_mesh"
              /\ chunkCall.chunk \in {bundles[key].chunk : key \in DOMAIN bundles}) =>
                 /\ ~chunkCall.panicked
                 /\ Len(chunkCall.vertex_data) = 144
                 /\ Cardinality(ExposedFaces(chunkCall.chunk)) = 24

\* The mesh of the one chunk of the 2x2x2 all-active model.
C15_Witness ==
    /\ AllActive2x2x2
    /\ chunkCall.op = "generate_mesh"
    /\ Cardinality(ActiveCells(chunkCall.chunk)) = 8
    /\ Len(chunkCall.vertex_data) = 144

\* ------------------------------------------------------------ chunk atlas
\* What a write_to_texture call was given and what it did.
Accepted == chunkCall.op = "write_to_texture"
            /\ tex.description.dimension = "D3"
            /\ UnwrapOr(tex.description.depth, 1) % 32 = 0
            /\ tex.description.width = 32
            /\ tex.description.height = 32
            /\ chunkCall.chunk_index < UnwrapOr(tex.description.depth, 1) \div 32

LoadChunkErrors == {"InvalidTextureDimension", "InvalidTextureDepth",
                    "InvalidTextureSize", "InvalidChunksIndex"}

TexelsOf(data) == IF data.kind = "voxels" THEN data.texels ELSE <<>>
LayersOf(data) == IF data.kind = "voxels" THEN data.layers ELSE {}
AtlasTexel(data, d) ==
    IF d \in DOMAIN TexelsOf(data) THEN TexelsOf(data)[d] ELSE <<0, 0, 0, 0>>
ChunkTexel(c, k) ==
    IF k \in DOMAIN c.blocks
    THEN <<IF c.blocks[k].active THEN 1 ELSE 0, c.blocks[k].color_id, 0, 0>>
    ELSE <<0, 0, 0, 0>>

\* C16: write_to_texture returns a LoadChunkError and writes nothing to the
\* device when the texture is not 3D, its depth is not a multiple of CHUNK_SIZE,
\* its width or height is not CHUNK_SIZE, or chunk_index >= depth / CHUNK_SIZE;
\* when all four conditions are met it returns Ok.
C16_WriteToTextureContract ==
    chunkCall.op = "write_to_texture" =>
        IF Accepted
        THEN chunkCall.result = "Ok"
        ELSE /\ chunkCall.result \in LoadChunkErrors
             /\ chunkCall.texture_writes = <<>>
             /\ chunkCall.buffer_writes = <<>>
             /\ gpuTextures[tex.texture].data = chunkCall.preTexture
             /\ gpuBuffers[buf.inner].data = chunkCall.preBuffer

\* C17: for every chunk_index i the precondition checks accept, write_to_texture
\* uploads the chunk's voxels into the layers [i * 32, (i + 1) * 32) of the
\* atlas and leaves every other layer as it was.
C17_SliceRange ==
    Accepted =>
        LET i == chunkCall.chunk_index
            slice == (i * 32)..((i + 1) * 32 - 1)
            post == gpuTextures[tex.texture].data
            pre == chunkCall.preTexture
        IN  /\ slice \subseteq LayersOf(post)
            /\ \A k \in DOMAIN chunkCall.chunk.blocks :
                  AtlasTexel(post, <<k[1], k[2], k[3] + i * 32>>)
                     = ChunkTexel(chunkCall.chunk, k)
            /\ \A d \in DOMAIN TexelsOf(post) :
                  d[3] \in slice =>
                     TexelsOf(post)[d] = ChunkTexel(chunkCall.chunk,
                                                    <<d[1], d[2], d[3] - i * 32>>)
            /\ \A d \in DOMAIN TexelsOf(post) \cup DOMAIN TexelsOf(pre) :
                  d[3] \notin slice => AtlasTexel(post, d) = AtlasTexel(pre, d)

\* C18: the source bytes write_to_texture asks the device to read are
\* [chunk_index * 131072, (chunk_index + 1) * 131072) of a packed buffer of
\* 131072 bytes; the range lies inside the buffer for chunk_index = 0 and
\* overruns it for every accepted chunk_index > 0.
C18_SourceRange ==
    Accepted =>
        /\ Len(chunkCall.texture_writes) = 1
        /\ LET source == chunkCall.texture_writes[1].source
           IN  /\ source.len = 131072
               /\ source.from = chunkCall.chunk_index * 131072
               /\ source.to = (chunkCall.chunk_index + 1) * 131072
               /\ (source.to <= source.len) <=> (chunkCall.chunk_index = 0)

C18_Witness ==
    /\ Accepted
    /\ chunkCall.chunk_index = 1
    /\ chunkCall.texture_writes[1].source.to > chunkCall.texture_writes[1].source.len
    /\ ~chunkCall.texture_writes[1].valid

\* C19: write_to_texture writes the chunk's palette into the chunk_index-th
\* slot of the palettes buffer (PALETTE_SIZE elements for each chunk) and leaves
\* the elements of every other slot as they were.
PaletteSlot(i) == (i * PALETTE_SIZE + 1)..((i + 1) * PALETTE_SIZE)

C19_PaletteSlot ==
    Accepted =>
        LET i == chunkCall.chunk_index
            post == gpuBuffers[buf.inner].data
            pre == chunkCall.preBuffer
            palette == PaletteVec4(chunkCall.chunk.palette)
        IN  /\ \A k \in 1..Len(palette) :
                  /\ i * PALETTE_SIZE + k \in DOMAIN post
                  /\ post[i * PALETTE_SIZE + k] = palette[k]
            /\ \A e \in (DOMAIN post \cup DOMAIN pre) \ PaletteSlot(i) :
                  /\ e \in DOMAIN post <=> e \in DOMAIN pre
                  /\ e \in DOMAIN post => post[e] = pre[e]

\* C20: when an active block of the chunk has a palette index past the end of
\* the palette, generate_mesh and an accepted write_to_texture both panic; when
\* every active block has a valid index, generate_mesh does not panic.
InvalidPaletteIndex(c) ==
    \E k \in DOMAIN c.blocks :
        c.blocks[k].active /\ c.blocks[k].color_id >= Len(c.palette)

C20_PaletteIndexFatal ==
    /\ chunkCall.op = "generate_mesh" =>
          (chunkCall.panicked <=> InvalidPaletteIndex(chunkCall.chunk))
    /\ (Accepted /\ InvalidPaletteIndex(chunkCall.chunk)) =>
          chunkCall.result = "Panicked"

\* ------------------------------------------------------- claims: passes
\* C21: RenderPass::draw with a Compute pipeline and ComputePass::compute with
\* a Render pipeline panic before any command is recorded; with the matching
\* variant the pipeline is set first and the pass ends with the draw or the
\* dispatch.
C21_WrongPipelinePanics ==
    texCall.op \in {"compute", "draw"} =>
        LET matching == IF texCall.op = "compute" THEN "Compute" ELSE "Render"
            last == IF texCall.op = "compute" THEN "dispatch_workgroups" ELSE "draw"
            n == Len(texCall.commands)
        IN  IF texCall.pipeline.kind # matching
            THEN texCall.panicked /\ texCall.commands = <<>>
            ELSE /\ ~texCall.panicked
                 /\ n >= 2
                 /\ texCall.commands[1].cmd = "set_pipeline"
                 /\ texCall.commands[n].cmd = last
                 /\ Cardinality({i \in 1..n : texCall.commands[i].cmd = "set_bind_group"})
                       = texCall.bindings

C21_Witness ==
    /\ texCall.op = "draw"
    /\ texCall.pipeline.kind = "Compute"
    /\ texCall.panicked

\* ------------------------------------------------- claims: frame errors
\* C22: a render() whose canvas acquisition fails returns the error and does
\* nothing else: the TAA state, the tracer, the renderer and every device
\* object are as before, no step ran, no command was recorded, nothing was
\* read, copied or presented, and the frame count is unchanged.
C22_CanvasFailureInert ==
    [][(frame' # frame /\ frame'.result = "Err") =>
          /\ UNCHANGED <<taa, tracer, renderer, gpuTextures, gpuBuffers>>
          /\ frame'.n = frame.n
          /\ frame'.trace = <<>>
          /\ frame'.encoder = <<>>
          /\ frame'.reads = <<>>
          /\ frame'.presented = <<>>
          /\ frame'.resized = NoResize
          /\ ~frame'.rebuilt
          /\ ~frame'.rebind]_vars

\* A failed frame after a rendered one, with a resize still pending.
C22_Witness ==
    /\ frame.result = "Err"
    /\ frame.n = 1
    /\ taa.render_texture.description.width # renderer.size.width

\* C23: in the game loop a render error from the loss of the surface (swap
\* chain lost or out of date) makes the loop reconfigure the surface at the
\* current size and go on; an out-of-memory error ends the loop; any other
\* render error changes nothing and the loop goes on.
C23_LoopErrorPolicy ==
    (frame.n > 0 /\ frame.result = "Err") =>
        CASE frame.surface_error \in {"Lost", "Outdated"} ->
                /\ frame.resized
                /\ ~frame.exited
                /\ renderer.surface = [width |-> renderer.size.width,
                                       height |-> renderer.size.height]
          [] frame.surface_error = "OutOfMemory" -> frame.exited
          [] OTHER -> ~frame.resized /\ ~frame.exited

\* ---------------------------------------------------- claims: set_block
\* C24: set_block(block, x, y, z) returns InvalidBlockCoords and leaves the
\* chunk as it was exactly when a coordinate is >= CHUNK_SIZE; otherwise it
\* returns Ok, get_block(x, y, z) then yields the block, and every other block
\* of the chunk (and its palette) is as before.
C24_SetBlockContract ==
    [][chunkCall'.op = "set_block" =>
          LET x == chunkCall'.x
              y == chunkCall'.y
              z == chunkCall'.z
              cells == (DOMAIN chunk.blocks) \cup (DOMAIN chunk'.blocks) \cup BlockCoords
          IN  IF x >= 32 \/ y >= 32 \/ z >= 32
              THEN chunkCall'.result = "InvalidBlockCoords" /\ chunk' = chunk
              ELSE /\ chunkCall'.result = "Ok"
                   /\ GetBlock(chunk', x, y, z) = Some(chunkCall'.block)
                   /\ \A k \in cells \ {<<x, y, z>>} :
                         GetBlock(chunk', k[1], k[2], k[3])
                            = GetBlock(chunk, k[1], k[2], k[3])
                   /\ chunk'.palette = chunk.palette
                   /\ chunk'.vertex_buffer = chunk.vertex_buffer]_vars

\* An accepted set_block on a chunk that holds another block as well.
C24_Witness ==
    /\ chunkCall.op = "set_block"
    /\ chunkCall.result = "Ok"
    /\ chunkCall.block.active
    /\ <<chunkCall.x, chunkCall.y, chunkCall.z>> = <<1, 0, 0>>
    /\ Cardinality(DOMAIN chunk.blocks) = 2

\* ------------------------------------------------------ claims: resizing
\* C25: whatever resize_with calls were made, the renderer's size, the surface
\* configuration and the depth texture have one width and height, and a call
\* with a zero width or height changed none of them (the size is never zero);
\* a rendered frame recorded its passes with the TAA render and history
\* textures already at the size the renderer had for that frame.
C25_ResizeConsistent ==
    /\ renderer.size.width > 0 /\ renderer.size.height > 0
    /\ renderer.config = [width |-> renderer.size.width,
                          height |-> renderer.size.height]
    /\ renderer.surface = renderer.config
    /\ renderer.depth_texture.description.width = renderer.size.width
    /\ renderer.depth_texture.description.height = renderer.size.height
    /\ gpuTextures[renderer.depth_texture.texture].size
          = [width |-> renderer.size.width, height |-> renderer.size.height,
             depth_or_array_layers |-> 1]
    /\ frame.result = "Ok" =>
          LET extent == [width |-> frame.size.width, height |-> frame.size.height,
                         depth_or_array_layers |-> 1]
          IN  /\ \A i \in 1..Len(frame.encoder) :
                    /\ (frame.encoder[i].op = "render_pass"
                        /\ frame.encoder[i].target.kind = "texture") =>
                          /\ frame.encoder[i].target.id = taa.render_texture.texture
                          /\ gpuTextures[frame.encoder[i].target.id].size = extent
                    /\ frame.encoder[i].op = "copy" =>
                          /\ gpuTextures[frame.encoder[i].from].size = extent
                          /\ gpuTextures[frame.encoder[i].to].size = extent
                          /\ frame.encoder[i].to = taa.history_texture.texture
                    /\ frame.encoder[i].op = "compute" =>
                          frame.encoder[i].workgroups
                             = <<frame.size.width, frame.size.height, 1>>

\* A frame that brought the TAA textures to a new size, with the renderer still
\* at that size.
C25_Witness ==
    /\ frame.result = "Ok"
    /\ frame.resized.render
    /\ frame.resized.history
    /\ renderer.size = frame.size
    /\ renderer.depth_texture.description.width # renderer.depth_texture.description.height

\* C26: when the compute dispatch of a frame is recorded, the colour, normal,
\* depth and velocity buffers have capacity width * height of the viewport, and
\* the resources bound for the dispatch are the current ones: the tracer's
\* ShaderResource binds the handle each of its buffers has now, also in a
\* frame that resized them.
C26_DispatchBindsCurrentBuffers ==
    frame.result = "Ok" =>
        LET viewport_size == frame.size.width * frame.size.height
            perPixel == {tracer.color_buffer, tracer.normal_buffer,
                         tracer.depth_buffer, taa.velocity_buffer}
            dispatch == frame.encoder[CHOOSE i \in 1..Len(frame.encoder) :
                                         frame.encoder[i].op = "compute"]
        IN  /\ \A b \in perPixel :
                  /\ b.capacity = viewport_size
                  /\ b.inner \in DOMAIN gpuBuffers
                  /\ gpuBuffers[b.inner].size = viewport_size * b.elem
            /\ dispatch.bindings = <<taa.shader_resource, tracer.shader_resource>>
            /\ BoundIds(dispatch.bindings[2], {"Buffer"})
                  = {tracer.camera_buffer.inner, tracer.color_buffer.inner,
                     tracer.normal_buffer.inner, tracer.depth_buffer.inner,
                     tracer.palettes_buffer.inner}
            /\ taa.velocity_buffer.inner \in BoundIds(dispatch.bindings[1], {"Buffer"})
            /\ frame.resized.velocity => frame.rebind /\ frame.rebuilt

\* A second or later frame that resized the per-pixel buffers.
C26_Witness ==
    /\ frame.result = "Ok"
    /\ frame.n >= 2
    /\ frame.rebind
    /\ frame.resized.velocity
    /\ tracer.color_buffer.capacity = frame.size.width * frame.size.height

\* --------------------------------------------------- claims: packed bytes
\* C27: the packed bytes of a chunk are 4 * 32^3 = 131072 bytes, and the four
\* bytes of voxel (x, y, z), at byte index 4 * (x + 32 * y + 1024 * z), are
\* (1 if active else 0, palette index, 0, 0); an upload the device accepts puts
\* these bytes at texel (x, y, z) of the region written.
C27_PackedLayout ==
    LET packed == DataToU8Slice(chunk)
    IN  /\ packed.len = 131072
        /\ \A k \in DOMAIN chunk.blocks :
              /\ 4 * PackedIndex(k) = 4 * (k[1] + 32 * k[2] + 1024 * k[3])
              /\ 4 * PackedIndex(k) + 3 < packed.len
              /\ packed.texels[k] = <<IF chunk.blocks[k].active THEN 1 ELSE 0,
                                      chunk.blocks[k].color_id, 0, 0>>
        /\ (chunkCall.op = "write_to_texture" /\ chunkCall.result = "Ok") =>
              /\ chunkCall.texture_writes[1].source.len = 131072
              /\ \A k \in DOMAIN chunkCall.chunk.blocks :
                    AtlasTexel(gpuTextures[tex.texture].data, k)
                       = ChunkTexel(chunkCall.chunk, k)

C27_Witness ==
    /\ chunkCall.op = "write_to_texture"
    /\ chunkCall.result = "Ok"
    /\ chunk = chunkCall.chunk
    /\ <<1, 2, 3>> \in DOMAIN chunk.blocks

\* ---------------------------------------------------- claims: buffer writes
\* C28: every device write that fill_exact or fill issues, whatever the
\* capacity, the element offset and the data, covers elements
\* [offset, offset + data.len()) inside the buffer's current allocation of
\* capacity elements.
C28_WritesInsideAllocation ==
    call.op \in {"fill_exact", "fill"} =>
        \A i \in 1..Len(call.writes) :
            /\ call.writes[i].buffer = buf.inner
            /\ call.writes[i].offset + call.writes[i].len <= buf.capacity
            /\ (call.writes[i].offset + call.writes[i].len) * buf.elem
                  <= gpuBuffers[buf.inner].size

\* ------------------------------------------------------ claims: Drawable
\* C29: after any sequence of Chunk::update calls the chunk has the vertex
\* buffer id its first update assigned, and a draw of the chunk issues as many
\* vertices (the capacity of that buffer) as the mesh generated by the latest
\* update has, also when that mesh is smaller than an earlier one.
C29_DrawMatchesMesh ==
    chunkCall.op = "update" =>
        /\ chunk.vertex_buffer # None
        /\ chunkCall.vertex_buffer # None => chunk.vertex_buffer = chunkCall.vertex_buffer
        /\ LET drawable == renderer.vertex_buffers[chunk.vertex_buffer[1] + 1]
               draw == PassDraw(Some(drawable), None, [kind |-> "Render", id |-> 1],
                                <<>>).commands
           IN  /\ draw[Len(draw)].cmd = "draw"
               /\ draw[Len(draw)].arg = chunkCall.vertices

\* -------------------------------------------------- claims: camera jitter
\* C30: in every rendered frame the camera uniform in the camera buffer was
\* computed with the jitter Taa::update sampled in that frame
\* (taa.current_jitter), whether or not the viewport size changed.
C30_CameraUsesFrameJitter ==
    frame.result = "Ok" =>
        LET uniform == gpuBuffers[tracer.camera_buffer.inner].data[1]
        IN  /\ uniform = UniformData(tracer.camera)
            /\ uniform.image_width = frame.size.width
            /\ uniform.image_height = frame.size.height
            /\ uniform.first_pixel = [jitter |-> taa.current_jitter,
                                      over |-> frame.size.height]

=============================================================================
